---- MODULE Spec2Model ----
(***************************************************************************)
(* A model of the TCP file-transfer protocol of server.py (FileServer) and *)
(* client.py (FileClient): the per-connection worker of the server with    *)
(* its upload and download handlers, the duplicate resolver and the        *)
(* version archiver over a storage root, and the client's upload and       *)
(* download drivers.                                                       *)
(***************************************************************************)
EXTENDS Integers, Sequences, FiniteSets, TLC

\* ------------------------------------------------------------------ bounds
MaxLen == 2        \* longest payload / file content, in bytes
MaxByte == 1       \* byte values are 0..MaxByte
ChunkSize == 1     \* the 4096-byte read/send unit, scaled down
MaxUploads == 3    \* successful uploads in one run
MaxClock == 1      \* the wall clock runs over seconds 0..MaxClock
MaxCalls == 2      \* top-level calls of the client in one run
MaxRun == 2        \* bytes the peer sends in one run
MaxAcceptErrors == 1   \* socket errors of accept() in one run
MaxResumes == 2    \* resumes of one download that are counted

Conns == {1, 2}
Bytes == 0..MaxByte
Contents == UNION {[1..n -> Bytes] : n \in 0..MaxLen}

Min(a, b) == IF a < b THEN a ELSE b

\* f.write(chunk) at position pos of a file: a gap is filled with zero bytes
WriteAt(content, pos, chunk) ==
    IF Len(content) < pos
    THEN content \o [i \in 1..(pos - Len(content)) |-> 0] \o chunk
    ELSE SubSeq(content, 1, pos) \o chunk \o SubSeq(content, pos + Len(chunk) + 1, Len(content))

\* the first n elements of s, and s without them
Take(s, n) == SubSeq(s, 1, Min(n, Len(s)))
Drop(s, n) == SubSeq(s, Min(n, Len(s)) + 1, Len(s))

\* ------------------------------------------------------------------ digest
\* A byte of a JSON document that is read where payload is expected.  It is
\* told apart from the bytes of the files.
JsonByte == MaxByte + 1

\* hashlib.sha256(): a running accumulator fed chunk by chunk.  The accumulator
\* is an injective numeral of the bytes fed so far (leading digit 1, digits
\* 0..JsonByte), so two digests are equal exactly when the byte sequences are.
Sha256New == 1

RECURSIVE Sha256Update(_, _)
Sha256Update(h, chunk) ==
    IF chunk = <<>> THEN h
    ELSE Sha256Update(h * (JsonByte + 1) + Head(chunk), Tail(chunk))

HexDigest(h) == h

\* _calculate_file_hash: the digest of a whole file, read in chunks
RECURSIVE CalcHashFrom(_, _)
CalcHashFrom(h, data) ==
    IF data = <<>> THEN h
    ELSE CalcHashFrom(Sha256Update(h, Take(data, ChunkSize)), Drop(data, ChunkSize))

CalculateFileHash(content) == HexDigest(CalcHashFrom(Sha256New, content))

Digests == {CalculateFileHash(c) : c \in Contents}

\* --------------------------------------------------------------- filenames
\* A filename is its stem, the _vN suffixes appended to it, and its extension:
\* os.path.splitext gives (name, ext) with name = (base, sfx).
Fname(base, sfx, ext) == [base |-> base, sfx |-> sfx, ext |-> ext]
NoName == Fname("", <<>>, "")
FileA == Fname("a", <<>>, ".txt")
ReqNames == {FileA}

SplitName(fn) == [base |-> fn.base, sfx |-> fn.sfx]

\* f"{name}_v{counter}{ext}"
RenamedTo(fn, counter) == [fn EXCEPT !.sfx = Append(@, counter)]

\* f"{name}_{timestamp}{ext}" inside the directory version_dir/name
VersionPath(fn, timestamp) ==
    [dir |-> SplitName(fn), name |-> SplitName(fn), ts |-> timestamp, ext |-> fn.ext]

Modes == {"overwrite", "rename", "versioning"}

\* ---------------------------------------------------------------- messages
DeclSizes == (-1)..MaxLen
Offsets == (-1)..(MaxLen + 1)

UploadReq(f, s, h, m) ==
    [command |-> "UPLOAD", filename |-> f, filesize |-> s, hash |-> h, handling_mode |-> m]

\* The contents whose digest a request declares: one of every length, and a
\* second one of the greatest length that differs from the first in its last
\* byte.  Every request also may declare a digest that no payload of the
\* declared length hashes to.
UploadContents ==
    {[i \in 1..n |-> 0] : n \in 0..MaxLen}
    \cup {[i \in 1..MaxLen |-> IF i = MaxLen THEN 1 ELSE 0]}
SizedContents(s) == {c \in UploadContents : Len(c) = (IF s < 0 THEN 0 ELSE s)}
DeclHashes(s) ==
    {CalculateFileHash(c) : c \in SizedContents(s)}
    \cup {CalculateFileHash([i \in 1..(MaxLen + 1) |-> 0])}

UploadReqs ==
    UNION {{UploadReq(f, s, h, m) : f \in ReqNames, h \in DeclHashes(s), m \in Modes} :
           s \in DeclSizes}

\* UPLOAD requests without one of the required fields
PartialUploadReqs ==
    {[command |-> "UPLOAD", filesize |-> 1, hash |-> Sha256New, handling_mode |-> m] : m \in Modes}
    \cup {[command |-> "UPLOAD", filename |-> FileA, hash |-> Sha256New, handling_mode |-> m] : m \in Modes}
    \cup {[command |-> "UPLOAD", filename |-> FileA, filesize |-> 1, handling_mode |-> m] : m \in Modes}

DownloadReqs ==
    {[command |-> "DOWNLOAD"]}
    \cup {[command |-> "DOWNLOAD", filename |-> f] : f \in ReqNames}
    \cup {[command |-> "DOWNLOAD", filename |-> f, resume_offset |-> o] : f \in ReqNames, o \in Offsets}

OtherReqs == {[command |-> "PING"], [command |-> "LIST"]}

Requests == UploadReqs \cup PartialUploadReqs \cup DownloadReqs \cup OtherReqs

ReadyAck == [status |-> "ready"]
Acks == {ReadyAck, [status |-> "cancel"]}

\* what travels on a connection: one JSON document, or a run of raw bytes
MsgItem(m) == [kind |-> "msg", m |-> m]
DataItem(bs) == [kind |-> "data", bytes |-> bs]

\* what a peer may send in place of a request: UTF-8 text that is no JSON
\* document, bytes that are not UTF-8, and a JSON document that is no object
TextItem == [kind |-> "text"]
BinaryItem == [kind |-> "binary"]
ValueItem == [kind |-> "value"]
Garbage == {TextItem, BinaryItem, ValueItem}

\* what recv returns for an item when raw bytes are read: a JSON document or
\* other text arrives as bytes like any payload; it is shorter than one chunk
AsBytes(item) == IF item.kind = "data" THEN item.bytes ELSE <<JsonByte>>

\* dict.get(key, default)
Get(r, k, default) == IF k \in DOMAIN r THEN r[k] ELSE default

\* ------------------------------------------------------------------- state
VARIABLES
    files,       \* storage root: filename -> content, for the files that exist
    versions,    \* version root: version path -> content
    now,         \* the wall clock when it was last read, in seconds
    listener,    \* the accept loop: whether it runs, the socket errors it logged
    pc,          \* per connection: where its worker stands
    wk,          \* per connection: the locals of the handler that is running
    c2s,         \* per connection: what the peer sent and the worker has not read
    s2c,         \* per connection: what the worker sent and the peer has not read
    peerClosed,  \* per connection: the peer closed its end
    run,         \* history: the uploads so far, (handling mode, successes)
    cl           \* the client: where it stands, its socket, locals and local files

vars == <<files, versions, now, listener, pc, wk, c2s, s2c, peerClosed, run, cl>>

NoReq == [command |-> "NONE"]

InitWk ==
    [request |-> NoReq, new_filename |-> NoName, is_duplicate |-> FALSE,
     filesize |-> 0, file_hash |-> 0, received |-> 0, hash_obj |-> Sha256New,
     resume_offset |-> 0, bytes_sent |-> 0, linked |-> TRUE, unlinked |-> <<>>]

EmptyFn == [x \in {} |-> 0]

\* what a top-level call of the client returned: upload_file (content, the
\* filename the server resolved, the digest of its success response) and
\* download_file (filename, the digest of the ready response)
NoCall == [called |-> FALSE, ret |-> FALSE, filename |-> NoName, content |-> <<>>, hash |-> 0]

\* FileClient after __init__: no socket, an empty download directory.  Of the
\* running send_request it holds the request and retry_count; link tells
\* whether the connection of its socket still works; sends, connects and
\* unanswered are history: the sendall calls and the connect calls of the
\* running send_request, and the requests sent on the connection whose
\* response send_request has not read; calls counts the top-level calls.
InitCl ==
    [pc |-> "start", socket |-> 0, filepath |-> <<>>, handling_mode |-> "overwrite",
     filename |-> NoName, new_filename |-> NoName, filesize |-> 0, file_hash |-> 0,
     sent |-> 0, received |-> 0, hash_obj |-> Sha256New, downloads |-> EmptyFn,
     uploaded |-> NoCall, downloaded |-> NoCall, listed |-> NoCall,
     request |-> NoReq, retry_count |-> 0, resumes |-> 0, link |-> FALSE,
     sends |-> 0, connects |-> 0, unanswered |-> 0, calls |-> 0]

Exists(path) == path \in DOMAIN files

\* start: bind and listen succeeded, the accept loop runs
InitListener == [accepting |-> TRUE, errors |-> 0]

WriteFile(fs, path, content) ==
    [p \in DOMAIN fs \cup {path} |-> IF p = path THEN content ELSE fs[p]]

\* a removal that is left out
RemoveFile_skipped(fs, path) == fs

RemoveFile(fs, path) == [p \in DOMAIN fs \ {path} |-> fs[p]]

Init ==
    /\ files = EmptyFn
    /\ versions = EmptyFn
    /\ now = 0
    /\ listener = InitListener
    /\ pc = [c \in Conns |-> IF c = 1 THEN "idle" ELSE "free"]
    /\ wk = [c \in Conns |-> InitWk]
    /\ c2s = [c \in Conns |-> <<>>]
    /\ s2c = [c \in Conns |-> <<>>]
    /\ peerClosed = [c \in Conns |-> FALSE]
    /\ run = [mode |-> "none", k |-> 0]
    /\ cl = InitCl

\* ------------------------------------------------------- sending a response
\* send_response / _send_response: sendall of one JSON document.  Towards a peer
\* that closed its end the send may still go through or raise; a raise that no
\* handler catches ends the worker (handle_client closes the socket).
Goto(c, label, locals) ==
    /\ pc' = [pc EXCEPT ![c] = label]
    /\ wk' = [wk EXCEPT ![c] = locals]

SendResponse(c, response_data, label, locals) ==
    \/ /\ s2c' = [s2c EXCEPT ![c] = Append(@, MsgItem(response_data))]
       /\ Goto(c, label, locals)
    \/ /\ peerClosed[c]
       /\ UNCHANGED s2c
       /\ Goto(c, "closed", InitWk)

\* os.remove(path) while other workers hold the file open: their handles stay
\* valid, but what they write no longer reaches a file of the storage root,
\* and what they read is the content the file had when it was removed
Orphaned(path) ==
    [d \in Conns |-> IF pc[d] = "up_recv" /\ wk[d].new_filename = path
                     THEN [wk[d] EXCEPT !.linked = FALSE]
                     ELSE IF pc[d] = "dl_send" /\ wk[d].linked /\ wk[d].request.filename = path
                               /\ path \in DOMAIN files
                     THEN [wk[d] EXCEPT !.linked = FALSE, !.unlinked = files[path]]
                     ELSE wk[d]]

\* the response of a handler that has removed path
SendResponseAfterRemove(c, response_data, path) ==
    \/ /\ s2c' = [s2c EXCEPT ![c] = Append(@, MsgItem(response_data))]
       /\ pc' = [pc EXCEPT ![c] = "idle"]
       /\ wk' = [Orphaned(path) EXCEPT ![c] = InitWk]
    \/ /\ peerClosed[c]
       /\ UNCHANGED s2c
       /\ pc' = [pc EXCEPT ![c] = "closed"]
       /\ wk' = [Orphaned(path) EXCEPT ![c] = InitWk]


\* ------------------------------------------------------ connection dispatcher
\* handle_client: one recv(4096) is taken to be one request.  Text that is no
\* JSON document gives JSONDecodeError (an error response); bytes that do not
\* decode as UTF-8 (UnicodeDecodeError), and a JSON value that is no object
\* (AttributeError on request.get), raise out of the loop, and the socket is
\* closed.  A run of payload bytes may be either text or not.
RecvRequest(c) ==
    /\ pc[c] = "idle"
    /\ c2s[c] # <<>>
    /\ LET item == Head(c2s[c]) IN
        /\ c2s' = [c2s EXCEPT ![c] = Tail(@)]
        /\ IF item.kind = "msg"
           THEN LET command == Get(item.m, "command", "None") IN
                IF command = "UPLOAD"
                THEN Goto(c, "upload", [InitWk EXCEPT !.request = item.m]) /\ UNCHANGED s2c
                ELSE IF command = "DOWNLOAD"
                THEN Goto(c, "download", [InitWk EXCEPT !.request = item.m]) /\ UNCHANGED s2c
                ELSE IF command = "LIST"
                THEN Goto(c, "list", InitWk) /\ UNCHANGED s2c
                ELSE SendResponse(c, [status |-> "error", message |-> "Invalid command"],
                                  "idle", InitWk)
           ELSE \/ /\ item.kind \in {"text", "data"}
                   /\ SendResponse(c, [status |-> "error", message |-> "Invalid request format"],
                                   "idle", InitWk)
                \/ /\ item.kind \in {"binary", "value", "data"}
                   /\ Goto(c, "closed", InitWk)
                   /\ UNCHANGED s2c
    /\ UNCHANGED <<files, versions, now, listener, peerClosed, run, cl>>

\* the empty read of a closed peer ends the loop
DispatcherEOF(c) ==
    /\ pc[c] = "idle"
    /\ c2s[c] = <<>>
    /\ peerClosed[c]
    /\ Goto(c, "closed", InitWk)
    /\ UNCHANGED <<files, versions, now, listener, c2s, s2c, peerClosed, run, cl>>

\* socket.timeout while waiting for a request ends the loop
DispatcherTimeout(c) ==
    /\ pc[c] = "idle"
    /\ c2s[c] = <<>>
    /\ ~peerClosed[c]
    /\ Goto(c, "closed", InitWk)
    /\ UNCHANGED <<files, versions, now, listener, c2s, s2c, peerClosed, run, cl>>

\* --------------------------------------------- duplicate resolver, archiver
\* a probe that also skips the names other workers have been given
RECURSIVE RenameCounter_reserving(_, _)
RenameCounter_reserving(filename, counter) ==
    IF /\ ~Exists(RenamedTo(filename, counter))
       /\ \A d \in Conns : ~(pc[d] \in {"up_ready", "up_open", "up_recv"}
                                /\ wk[d].new_filename = RenamedTo(filename, counter))
    THEN counter
    ELSE RenameCounter_reserving(filename, counter + 1)

RECURSIVE RenameCounter(_, _)
RenameCounter(filename, counter) ==
    IF ~Exists(RenamedTo(filename, counter)) THEN counter
    ELSE RenameCounter(filename, counter + 1)

\* a resolver that tries _v2 and does not probe further
check_file_exists_noprobe(filename, handling_mode) ==
    IF ~Exists(filename) THEN <<filename, FALSE>>
    ELSE IF handling_mode = "rename" THEN <<RenamedTo(filename, 2), TRUE>>
    ELSE <<filename, handling_mode \in {"overwrite", "versioning"}>>

\* a resolver that keeps the requested name under 'rename'
check_file_exists_inplace(filename, handling_mode) ==
    IF ~Exists(filename) THEN <<filename, FALSE>>
    ELSE <<filename, handling_mode \in {"overwrite", "rename", "versioning"}>>

\* a resolver that reports a duplicate under 'rename' only
check_file_exists_nodup(filename, handling_mode) ==
    IF ~Exists(filename) THEN <<filename, FALSE>>
    ELSE IF handling_mode = "rename"
         THEN <<RenamedTo(filename, RenameCounter(filename, 2)), TRUE>>
    ELSE <<filename, FALSE>>

\* a resolver that falls back to 'rename' for a handling mode it does not know
check_file_exists_renames(filename, handling_mode) ==
    IF ~Exists(filename) THEN <<filename, FALSE>>
    ELSE IF handling_mode \in {"overwrite", "versioning"} THEN <<filename, TRUE>>
    ELSE <<RenamedTo(filename, RenameCounter(filename, 2)), TRUE>>

\* check_file_exists: (new_filename, is_duplicate)
check_file_exists(filename, handling_mode) ==
    IF ~Exists(filename) THEN <<filename, FALSE>>
    ELSE IF handling_mode = "overwrite" THEN <<filename, TRUE>>
    ELSE IF handling_mode = "rename"
         THEN <<RenamedTo(filename, RenameCounter(filename, 2)), TRUE>>
    ELSE IF handling_mode = "versioning" THEN <<filename, TRUE>>
    ELSE <<filename, FALSE>>

\* an archiver that copies nothing
archive_existing_file_skipped(filename, timestamp) == versions

\* archive_existing_file: the version root after copying the file into it
archive_existing_file(filename, timestamp) ==
    IF ~Exists(filename) THEN versions
    ELSE WriteFile(versions, VersionPath(filename, timestamp), files[filename])

\* ------------------------------------------------------------ upload handler
\* a validation that forgets the digest
all_required_nohash(request) ==
    /\ "filename" \in DOMAIN request
    /\ "filesize" \in DOMAIN request /\ request.filesize # 0

\* all([filename, filesize, file_hash]): present and not falsy (0 is falsy)
all_required(request) ==
    /\ "filename" \in DOMAIN request
    /\ "filesize" \in DOMAIN request /\ request.filesize # 0
    /\ "hash" \in DOMAIN request /\ request.hash # 0

\* The history of a run: the one handling mode of all its uploads so far
\* ("mixed" once two modes were used or an upload failed) and how many succeeded.
RunStarted(handling_mode) ==
    [run EXCEPT !.mode = IF @ \in {"none", handling_mode} THEN handling_mode ELSE "mixed"]

RunEnded(ok) ==
    IF ok THEN [run EXCEPT !.k = @ + 1] ELSE [run EXCEPT !.mode = "mixed"]

\* handle_upload, up to the duplicate resolution
UploadResolve(c) ==
    /\ pc[c] = "upload"
    /\ LET request == wk[c].request
           handling_mode == Get(request, "handling_mode", "overwrite")
       IN IF ~all_required(request)
          THEN /\ SendResponse(c, [status |-> "error", message |-> "Missing required information"],
                               "idle", InitWk)
               /\ UNCHANGED run
          ELSE LET res == check_file_exists(Get(request, "filename", NoName), handling_mode) IN
               /\ Goto(c, IF res[2] /\ handling_mode = "versioning" THEN "up_archive" ELSE "up_ready",
                       [wk[c] EXCEPT !.new_filename = res[1], !.is_duplicate = res[2],
                                     !.filesize = Get(request, "filesize", 0),
                                     !.file_hash = Get(request, "hash", 0)])
               /\ run' = RunStarted(handling_mode)
               /\ UNCHANGED s2c
    /\ UNCHANGED <<files, versions, now, listener, c2s, peerClosed, cl>>

\* datetime.now() is read here and nowhere else: the clock has moved on to some
\* second t since it was last read
UploadArchive(c) ==
    /\ pc[c] = "up_archive"
    /\ \E t \in now..MaxClock :
          /\ now' = t
          /\ versions' = archive_existing_file(Get(wk[c].request, "filename", NoName), t)
    /\ Goto(c, "up_ready", wk[c])
    /\ UNCHANGED <<files, listener, c2s, s2c, peerClosed, run, cl>>

UploadReady(c) ==
    /\ pc[c] = "up_ready"
    /\ SendResponse(c, [status |-> "ready", filename |-> wk[c].new_filename,
                        is_duplicate |-> wk[c].is_duplicate,
                        handling_mode |-> Get(wk[c].request, "handling_mode", "overwrite")],
                    "up_open", wk[c])
    /\ UNCHANGED <<files, versions, now, listener, c2s, peerClosed, run, cl>>

\* open(filepath, 'wb') creates or truncates the target
\* open(filepath, 'ab'): an existing target keeps its content
OpenForWrite_append(fs, path) == IF path \in DOMAIN fs THEN fs ELSE WriteFile(fs, path, <<>>)

OpenForWrite(fs, path) == WriteFile(fs, path, <<>>)

UploadOpen(c) ==
    /\ pc[c] = "up_open"
    /\ files' = OpenForWrite(files, wk[c].new_filename)
    /\ Goto(c, "up_recv", [wk[c] EXCEPT !.received = 0, !.hash_obj = Sha256New,
                                        !.linked = TRUE])
    /\ UNCHANGED <<versions, now, listener, c2s, s2c, peerClosed, run, cl>>

\* one turn of the receive loop: recv(min(4096, filesize - received)); the
\* chunk is written at the position of the worker's own handle
UploadRecv(c) ==
    /\ pc[c] = "up_recv"
    /\ wk[c].received < wk[c].filesize
    /\ c2s[c] # <<>>
    /\ LET avail == AsBytes(Head(c2s[c]))
           n == Min(ChunkSize, wk[c].filesize - wk[c].received)
           chunk == Take(avail, n)
           rest == Drop(avail, n)
       IN /\ c2s' = [c2s EXCEPT ![c] = IF rest = <<>> THEN Tail(@)
                                       ELSE <<DataItem(rest)>> \o Tail(@)]
          /\ files' = IF wk[c].linked /\ Exists(wk[c].new_filename)
                      THEN WriteFile(files, wk[c].new_filename,
                                     WriteAt(files[wk[c].new_filename], wk[c].received, chunk))
                      ELSE files
          /\ Goto(c, "up_recv", [wk[c] EXCEPT !.hash_obj = Sha256Update(@, chunk),
                                              !.received = @ + Len(chunk)])
    /\ UNCHANGED <<versions, now, listener, s2c, peerClosed, run, cl>>

\* an except branch that leaves the partial file behind
UploadAbort_keep(c, e) ==
    /\ UNCHANGED files
    /\ SendResponse(c, [status |-> "error", message |-> "File transfer error", cause |-> e],
                    "idle", InitWk)
    /\ run' = RunEnded(FALSE)
    /\ UNCHANGED <<versions, now, listener, c2s, peerClosed, cl>>

\* the except branch of the receive loop: close, remove the partial file, respond
UploadAbort(c, e) ==
    /\ files' = RemoveFile(files, wk[c].new_filename)
    /\ SendResponseAfterRemove(c, [status |-> "error", message |-> "File transfer error",
                                   cause |-> e], wk[c].new_filename)
    /\ run' = RunEnded(FALSE)
    /\ UNCHANGED <<versions, now, listener, c2s, peerClosed, cl>>

\* empty read: the peer closed before the declared size was reached
UploadRecvEOF(c) ==
    /\ pc[c] = "up_recv"
    /\ wk[c].received < wk[c].filesize
    /\ c2s[c] = <<>>
    /\ peerClosed[c]
    /\ UploadAbort(c, "Connection closed during file transfer")

\* socket.timeout in the receive loop is an Exception like any other
UploadRecvTimeout(c) ==
    /\ pc[c] = "up_recv"
    /\ wk[c].received < wk[c].filesize
    /\ c2s[c] = <<>>
    /\ ~peerClosed[c]
    /\ UploadAbort(c, "timed out")

\* the whole declared size has arrived: compare the digests.  os.remove of a
\* target that another worker has removed raises, which the outer handler
\* answers with 'Server error'
UploadVerify(c) ==
    /\ pc[c] = "up_recv"
    /\ ~(wk[c].received < wk[c].filesize)
    /\ LET calculated_hash == HexDigest(wk[c].hash_obj) IN
        /\ IF calculated_hash = wk[c].file_hash
           THEN /\ UNCHANGED files
                /\ SendResponse(c, [status |-> "success", message |-> "uploaded successfully",
                                    hash |-> calculated_hash], "idle", InitWk)
           ELSE IF Exists(wk[c].new_filename)
           THEN /\ files' = RemoveFile(files, wk[c].new_filename)
                /\ SendResponseAfterRemove(c, [status |-> "error",
                                               message |-> "File corruption detected",
                                               expected_hash |-> wk[c].file_hash,
                                               received_hash |-> calculated_hash],
                                           wk[c].new_filename)
           ELSE /\ UNCHANGED files
                /\ SendResponse(c, [status |-> "error", message |-> "Server error"],
                                "idle", InitWk)
        /\ run' = RunEnded(calculated_hash = wk[c].file_hash)
    /\ UNCHANGED <<versions, now, listener, c2s, peerClosed, cl>>

\* ---------------------------------------------------------- download handler
\* a handler that goes on to wait for an acknowledgment after 'File not found'
DownloadNotFound_waits(c) ==
    SendResponse(c, [status |-> "error", message |-> "File not found"], "dl_ack", wk[c])

\* the file does not exist: the error response, and the handler returns
DownloadNotFound(c) ==
    SendResponse(c, [status |-> "error", message |-> "File not found"], "idle", InitWk)

\* handle_download_request up to the 'ready' response.  A request without a
\* filename makes os.path.join raise, which ends the worker.
DownloadStart(c) ==
    /\ pc[c] = "download"
    /\ LET request == wk[c].request
           resume_offset == Get(request, "resume_offset", 0)
       IN IF "filename" \notin DOMAIN request
          THEN Goto(c, "closed", InitWk) /\ UNCHANGED s2c
          ELSE IF ~Exists(request.filename)
          THEN DownloadNotFound(c)
          ELSE LET filesize == Len(files[request.filename]) IN
               IF resume_offset > 0 /\ resume_offset >= filesize
               THEN SendResponse(c, [status |-> "error", message |-> "Invalid resume offset"],
                                 "idle", InitWk)
               ELSE SendResponse(c, [status |-> "ready", filesize |-> filesize,
                                     hash |-> CalculateFileHash(files[request.filename]),
                                     resuming_from |-> resume_offset],
                                 "dl_ack",
                                 [wk[c] EXCEPT !.filesize = filesize,
                                               !.resume_offset = resume_offset])
    /\ UNCHANGED <<files, versions, now, listener, c2s, peerClosed, run, cl>>

\* a handler that takes whatever it reads for the acknowledgment
is_ready_ack_any(item) == TRUE

\* json.loads(ready_msg).get('status') == 'ready'; what is no JSON object raises
\* an Exception that the handler catches
is_ready_ack(item) == item.kind = "msg" /\ Get(item.m, "status", "None") = "ready"

\* recv(1024) of the readiness acknowledgment; anything but {status: ready}
\* returns to the dispatcher, and so does open(filepath, 'rb') of a file that
\* is gone, which raises
DownloadAck(c) ==
    /\ pc[c] = "dl_ack"
    /\ c2s[c] # <<>>
    /\ LET item == Head(c2s[c]) IN
       IF is_ready_ack(item) /\ Exists(wk[c].request.filename)
       THEN Goto(c, "dl_send", [wk[c] EXCEPT !.bytes_sent = 0])
       ELSE Goto(c, "idle", InitWk)
    /\ c2s' = [c2s EXCEPT ![c] = Tail(@)]
    /\ UNCHANGED <<files, versions, now, listener, s2c, peerClosed, run, cl>>

\* an empty read (json.loads fails) or socket.timeout while waiting for the
\* acknowledgment: both are caught in the handler, which returns
DownloadAckEOF(c) ==
    /\ pc[c] = "dl_ack"
    /\ c2s[c] = <<>>
    /\ peerClosed[c]
    /\ Goto(c, "idle", InitWk)
    /\ UNCHANGED <<files, versions, now, listener, c2s, s2c, peerClosed, run, cl>>

DownloadAckTimeout(c) ==
    /\ pc[c] = "dl_ack"
    /\ c2s[c] = <<>>
    /\ ~peerClosed[c]
    /\ Goto(c, "idle", InitWk)
    /\ UNCHANGED <<files, versions, now, listener, c2s, s2c, peerClosed, run, cl>>

\* a send loop that never seeks
ReadPos_noseek(w) == w.bytes_sent

\* the position of the open file: seek(resume_offset) only if resume_offset > 0
ReadPos(w) == (IF w.resume_offset > 0 THEN w.resume_offset ELSE 0) + w.bytes_sent

remaining_bytes(w) == w.filesize - w.resume_offset

\* f.read(n) at position pos
ReadAt(content, pos, n) == Take(Drop(content, pos), n)

\* the content behind the handle of open(filepath, 'rb'): the file of the
\* storage root, or the file as it was when another worker removed it
Opened(c) ==
    IF wk[c].linked /\ Exists(wk[c].request.filename)
    THEN files[wk[c].request.filename]
    ELSE wk[c].unlinked

NextChunk(c) ==
    ReadAt(Opened(c), ReadPos(wk[c]),
           Min(ChunkSize, remaining_bytes(wk[c]) - wk[c].bytes_sent))

\* one turn of the send loop: read a chunk and sendall it; a connection error
\* is caught and the handler returns
DownloadSend(c) ==
    /\ pc[c] = "dl_send"
    /\ wk[c].bytes_sent < remaining_bytes(wk[c])
    /\ NextChunk(c) # <<>>
    /\ \/ /\ s2c' = [s2c EXCEPT ![c] = Append(@, DataItem(NextChunk(c)))]
          /\ Goto(c, "dl_send", [wk[c] EXCEPT !.bytes_sent = @ + Len(NextChunk(c))])
       \/ /\ peerClosed[c]
          /\ UNCHANGED s2c
          /\ Goto(c, "idle", InitWk)
    /\ UNCHANGED <<files, versions, now, listener, c2s, peerClosed, run, cl>>

\* a handler that remembers how far the transfer got
DownloadDone_remembers(c) ==
    /\ pc[c] = "dl_send"
    /\ ~(wk[c].bytes_sent < remaining_bytes(wk[c]) /\ NextChunk(c) # <<>>)
    /\ Goto(c, "idle", wk[c])
    /\ UNCHANGED <<files, versions, now, listener, c2s, s2c, peerClosed, run, cl>>

\* the loop ends: everything was sent, or the file has no more bytes
DownloadDone(c) ==
    /\ pc[c] = "dl_send"
    /\ ~(wk[c].bytes_sent < remaining_bytes(wk[c]) /\ NextChunk(c) # <<>>)
    /\ Goto(c, "idle", InitWk)
    /\ UNCHANGED <<files, versions, now, listener, c2s, s2c, peerClosed, run, cl>>

\* -------------------------------------------------------------- list handler
StartsWith(s, prefix) == Len(prefix) <= Len(s) /\ SubSeq(s, 1, Len(prefix)) = prefix

\* a sort that puts the oldest version first
RECURSIVE SortVersions_ascending(_)
SortVersions_ascending(S) ==
    IF S = {} THEN <<>>
    ELSE LET m == CHOOSE x \in S : \A y \in S : x.filename.ts <= y.filename.ts
         IN <<m>> \o SortVersions_ascending(S \ {m})

\* versions.sort(key=filename, reverse=True): the file names of one version
\* directory that end with the same ext differ in their timestamp only
RECURSIVE SortVersions(_)
SortVersions(S) ==
    IF S = {} THEN <<>>
    ELSE LET m == CHOOSE x \in S : \A y \in S : y.filename.ts <= x.filename.ts
         IN <<m>> \o SortVersions(S \ {m})

\* version_file.endswith(ext) for a version file name_timestamp.version_ext:
\* an extension is empty or begins with the only '.' of what follows the name,
\* so the file name ends with ext when ext is empty or is its own extension
EndsWithExt(version_ext, ext) == ext = "" \/ version_ext = ext

\* get_version_history: the entries of version_dir/name whose file name starts
\* with name and ends with ext, newest first
get_version_history(filename) ==
    SortVersions({[filename |-> p, size |-> Len(versions[p])] :
        p \in {q \in DOMAIN versions :
                  /\ q.dir = SplitName(filename)
                  /\ q.name.base = filename.base
                  /\ StartsWith(q.name.sfx, filename.sfx)
                  /\ EndsWithExt(q.ext, filename.ext)}})

\* os.listdir(storage_dir): the files, and the version root, which is a
\* directory of the storage root
VersionRoot == Fname("version_history", <<>>, "")
ListDir == DOMAIN files \cup {VersionRoot}
IsFile(entry) == entry \in DOMAIN files

\* handle_list: one entry for every regular file of the storage root
HandleList(c) ==
    /\ pc[c] = "list"
    /\ SendResponse(c, [status |-> "success",
                        files |-> {[filename |-> f, size |-> Len(files[f]),
                                    versions |-> get_version_history(f)] :
                                   f \in {e \in ListDir : IsFile(e)}}],
                    "idle", InitWk)
    /\ UNCHANGED <<files, versions, now, listener, c2s, peerClosed, run, cl>>

\* ---------------------------------------------------------------- listener
\* an accept loop that serves the connection itself: it accepts the next one
\* when no worker is running
Accept_inline(c) ==
    /\ listener.accepting
    /\ pc[c] \in {"free", "closed"}
    /\ \A d \in Conns \ {c} : pc[d] \in {"free", "closed"}
    /\ pc' = [pc EXCEPT ![c] = "idle"]
    /\ c2s' = [c2s EXCEPT ![c] = <<>>]
    /\ s2c' = [s2c EXCEPT ![c] = <<>>]
    /\ peerClosed' = [peerClosed EXCEPT ![c] = FALSE]
    /\ UNCHANGED <<files, versions, now, listener, wk, run, cl>>

\* start: the accept loop hands the next connection to a new worker
Accept(c) ==
    /\ listener.accepting
    /\ pc[c] \in {"free", "closed"}
    /\ pc' = [pc EXCEPT ![c] = "idle"]
    /\ c2s' = [c2s EXCEPT ![c] = <<>>]
    /\ s2c' = [s2c EXCEPT ![c] = <<>>]
    /\ peerClosed' = [peerClosed EXCEPT ![c] = FALSE]
    /\ UNCHANGED <<files, versions, now, listener, wk, run, cl>>

\* start: accept() raised socket.error; it is logged and the loop continues
AcceptError ==
    /\ listener.accepting
    /\ listener.errors < MaxAcceptErrors
    /\ listener' = [listener EXCEPT !.errors = @ + 1]
    /\ UNCHANGED <<files, versions, now, pc, wk, c2s, s2c, peerClosed, run, cl>>

\* ------------------------------------------------------------ an arbitrary peer
\* The peer of a connection sends whatever it likes; it reads the responses it
\* has got before it sends a request, and its data reaches the worker one item
\* at a time.
PeerRequest(c) ==
    /\ pc[c] = "idle"
    /\ c2s[c] = <<>>
    /\ ~peerClosed[c]
    /\ run.k < MaxUploads
    /\ \E item \in {MsgItem(m) : m \in Requests} \cup {DataItem(<<0>>)} \cup Garbage :
          c2s' = [c2s EXCEPT ![c] = <<item>>]
    /\ s2c' = [s2c EXCEPT ![c] = <<>>]
    /\ UNCHANGED <<files, versions, now, listener, pc, wk, peerClosed, run, cl>>

\* the peer sends a run of bytes, which may be longer than what the handler
\* still waits for
PeerPayload(c) ==
    /\ pc[c] = "up_recv"
    /\ c2s[c] = <<>>
    /\ ~peerClosed[c]
    /\ \E n \in 1..MaxRun : \E bs \in [1..n -> Bytes] :
          c2s' = [c2s EXCEPT ![c] = <<DataItem(bs)>>]
    /\ UNCHANGED <<files, versions, now, listener, pc, wk, s2c, peerClosed, run, cl>>

PeerAck(c) ==
    /\ pc[c] = "dl_ack"
    /\ c2s[c] = <<>>
    /\ ~peerClosed[c]
    /\ \E item \in {MsgItem(m) : m \in Acks} \cup {DataItem(<<0>>)} \cup Garbage :
          c2s' = [c2s EXCEPT ![c] = <<item>>]
    /\ UNCHANGED <<files, versions, now, listener, pc, wk, s2c, peerClosed, run, cl>>

PeerClose(c) ==
    /\ pc[c] \notin {"closed", "free"}
    /\ ~peerClosed[c]
    /\ c2s[c] = <<>>
    /\ peerClosed' = [peerClosed EXCEPT ![c] = TRUE]
    /\ UNCHANGED <<files, versions, now, listener, pc, wk, c2s, s2c, run, cl>>

\* ------------------------------------------------------------- specification
Worker(c) ==
    \/ RecvRequest(c) \/ DispatcherEOF(c) \/ DispatcherTimeout(c)
    \/ UploadResolve(c) \/ UploadArchive(c) \/ UploadReady(c) \/ UploadOpen(c)
    \/ UploadRecv(c) \/ UploadRecvEOF(c) \/ UploadRecvTimeout(c) \/ UploadVerify(c)
    \/ DownloadStart(c) \/ DownloadAck(c) \/ DownloadAckEOF(c) \/ DownloadAckTimeout(c)
    \/ DownloadSend(c) \/ DownloadDone(c)
    \/ HandleList(c)

Peer(c) == PeerRequest(c) \/ PeerPayload(c) \/ PeerAck(c) \/ PeerClose(c)

\* one connection at a time, served for an arbitrary peer
Next == Worker(1) \/ Peer(1) \/ Accept(1)

Spec == Init /\ [][Next]_vars


\* ==================================================================== client
\* The client talks on connection cl.socket.  Its calls are made one after the
\* other; each returns to "idle" and leaves what it returned in cl.uploaded or
\* cl.downloaded.
ServerUnchanged == UNCHANGED <<files, versions, now, listener, wk, peerClosed, run>>

\* sendall; what is sent on a connection that no longer works arrives nowhere
ClientSend(item) ==
    c2s' = IF cl.link THEN [c2s EXCEPT ![cl.socket] = Append(@, item)] ELSE c2s

\* the locals of a call are gone when it returns
Returned(state) ==
    [state EXCEPT !.pc = "idle", !.filepath = <<>>, !.handling_mode = "overwrite",
                  !.filename = NoName, !.new_filename = NoName, !.filesize = 0,
                  !.file_hash = 0, !.sent = 0, !.received = 0, !.hash_obj = Sha256New,
                  !.request = NoReq, !.retry_count = 0]

\* send_request up to its first sendall
SendRequest(state, request_data) ==
    [state EXCEPT !.request = request_data, !.retry_count = 0, !.sends = 1,
                  !.connects = 0, !.unanswered = @ + 1, !.calls = @ + 1]

\* send_request has read a response
GotResponse(state) == [state EXCEPT !.unanswered = IF @ > 0 THEN @ - 1 ELSE 0]

\* connect(): the listener accepts and starts a worker for the connection
ClientConnect ==
    /\ cl.pc = "start"
    /\ listener.accepting
    /\ \E c \in Conns :
          /\ pc[c] = "free"
          /\ \A d \in Conns : pc[d] = "free" => c <= d
          /\ pc' = [pc EXCEPT ![c] = "idle"]
          /\ cl' = [cl EXCEPT !.pc = "idle", !.socket = c, !.link = TRUE, !.unanswered = 0]
    /\ UNCHANGED <<files, versions, now, listener, wk, c2s, s2c, peerClosed, run>>

\* upload_file up to the UPLOAD request: size and digest of the local file
ClientUploadStartWith(contents, modes) ==
    /\ cl.pc = "idle"
    /\ cl.socket \in Conns
    /\ cl.calls < MaxCalls
    /\ run.k < MaxUploads
    /\ \E content \in contents, handling_mode \in modes :
          LET filesize == Len(content)
              file_hash == CalculateFileHash(content)
          IN /\ ClientSend(MsgItem(UploadReq(FileA, filesize, file_hash, handling_mode)))
             /\ cl' = [SendRequest(cl, UploadReq(FileA, filesize, file_hash, handling_mode))
                          EXCEPT !.pc = "up_wait", !.filepath = content,
                                 !.handling_mode = handling_mode, !.filename = FileA,
                                 !.filesize = filesize, !.file_hash = file_hash,
                                 !.uploaded = NoCall, !.downloaded = NoCall,
                                 !.listed = NoCall]
    /\ UNCHANGED <<pc, s2c>>
    /\ ServerUnchanged

ClientUploadStart == ClientUploadStartWith(UploadContents, Modes)

\* the response to the UPLOAD request: anything but 'ready' returns False
ClientUploadReady ==
    /\ cl.pc = "up_wait"
    /\ s2c[cl.socket] # <<>>
    /\ LET item == Head(s2c[cl.socket]) IN
       IF item.kind = "msg" /\ Get(item.m, "status", "None") = "ready"
       THEN cl' = [GotResponse(cl) EXCEPT !.pc = "up_send", !.sent = 0,
                             !.new_filename = Get(item.m, "filename", cl.filename)]
       ELSE cl' = [Returned(GotResponse(cl)) EXCEPT !.uploaded =
                      [called |-> TRUE, ret |-> FALSE, filename |-> cl.filename,
                       content |-> cl.filepath, hash |-> 0]]
    /\ s2c' = [s2c EXCEPT ![cl.socket] = Tail(@)]
    /\ UNCHANGED <<pc, c2s>>
    /\ ServerUnchanged

\* one turn of the send loop: f.read(4096), sendall
ClientUploadSend ==
    /\ cl.pc = "up_send"
    /\ cl.sent < cl.filesize
    /\ LET chunk == ReadAt(cl.filepath, cl.sent, ChunkSize) IN
        /\ chunk # <<>>
        /\ ClientSend(DataItem(chunk))
        /\ cl' = [cl EXCEPT !.sent = @ + Len(chunk)]
    /\ UNCHANGED <<pc, s2c>>
    /\ ServerUnchanged

\* an upload_file that returns True whatever the confirmation says
ClientUploadConfirm_any ==
    /\ cl.pc = "up_send"
    /\ ~(cl.sent < cl.filesize /\ ReadAt(cl.filepath, cl.sent, ChunkSize) # <<>>)
    /\ s2c[cl.socket] # <<>>
    /\ cl' = [Returned(cl) EXCEPT !.uploaded =
                  [called |-> TRUE, ret |-> TRUE, filename |-> cl.new_filename,
                   content |-> cl.filepath, hash |-> 0]]
    /\ s2c' = [s2c EXCEPT ![cl.socket] = Tail(@)]
    /\ UNCHANGED <<pc, c2s>>
    /\ ServerUnchanged

\* after the loop: the confirmation; only 'success' returns True
ClientUploadConfirm ==
    /\ cl.pc = "up_send"
    /\ ~(cl.sent < cl.filesize /\ ReadAt(cl.filepath, cl.sent, ChunkSize) # <<>>)
    /\ s2c[cl.socket] # <<>>
    /\ LET item == Head(s2c[cl.socket])
           ok == item.kind = "msg" /\ Get(item.m, "status", "None") = "success"
       IN cl' = [Returned(cl) EXCEPT !.uploaded =
                    [called |-> TRUE, ret |-> ok, filename |-> cl.new_filename,
                     content |-> cl.filepath,
                     hash |-> IF ok THEN Get(item.m, "hash", 0) ELSE 0]]
    /\ s2c' = [s2c EXCEPT ![cl.socket] = Tail(@)]
    /\ UNCHANGED <<pc, c2s>>
    /\ ServerUnchanged

\* download_file up to the DOWNLOAD request
ClientDownloadStart ==
    /\ cl.pc = "idle"
    /\ cl.socket \in Conns
    /\ cl.calls < MaxCalls
    /\ \E filename \in ReqNames \cup ({cl.uploaded.filename} \ {NoName}) :
          /\ ClientSend(MsgItem([command |-> "DOWNLOAD", filename |-> filename]))
          /\ cl' = [SendRequest(cl, [command |-> "DOWNLOAD", filename |-> filename])
                       EXCEPT !.pc = "dl_wait", !.filename = filename, !.resumes = 0,
                              !.downloaded = NoCall, !.listed = NoCall]
    /\ UNCHANGED <<pc, s2c>>
    /\ ServerUnchanged

\* the response to the DOWNLOAD request: no 'ready', or a falsy filesize or hash,
\* returns False; else the acknowledgment is sent and the local file opened
ClientDownloadReady ==
    /\ cl.pc = "dl_wait"
    /\ s2c[cl.socket] # <<>>
    /\ LET item == Head(s2c[cl.socket])
           ready == item.kind = "msg" /\ Get(item.m, "status", "None") = "ready"
           filesize == IF ready THEN Get(item.m, "filesize", 0) ELSE 0
           file_hash == IF ready THEN Get(item.m, "hash", 0) ELSE 0
       IN IF ready /\ filesize # 0 /\ file_hash # 0
          THEN /\ ClientSend(MsgItem(ReadyAck))
               /\ cl' = [GotResponse(cl) EXCEPT !.pc = "dl_recv", !.filesize = filesize,
                                   !.file_hash = file_hash, !.received = 0,
                                   !.hash_obj = Sha256New,
                                   !.downloads = OpenForWrite(@, cl.filename)]
          ELSE /\ UNCHANGED c2s
               /\ cl' = [Returned(GotResponse(cl)) EXCEPT !.downloaded =
                            [called |-> TRUE, ret |-> FALSE, filename |-> cl.filename,
                             content |-> <<>>, hash |-> file_hash]]
    /\ s2c' = [s2c EXCEPT ![cl.socket] = Tail(@)]
    /\ UNCHANGED pc
    /\ ServerUnchanged

\* one turn of the receive loop: recv(min(4096, filesize - received))
ClientDownloadRecv ==
    /\ cl.pc = "dl_recv"
    /\ cl.received < cl.filesize
    /\ s2c[cl.socket] # <<>>
    /\ LET avail == AsBytes(Head(s2c[cl.socket]))
           n == Min(ChunkSize, cl.filesize - cl.received)
           chunk == Take(avail, n)
           rest == Drop(avail, n)
       IN /\ s2c' = [s2c EXCEPT ![cl.socket] = IF rest = <<>> THEN Tail(@)
                                               ELSE <<DataItem(rest)>> \o Tail(@)]
          /\ cl' = [cl EXCEPT !.hash_obj = Sha256Update(@, chunk),
                              !.received = @ + Len(chunk),
                              !.downloads = WriteFile(@, cl.filename, @[cl.filename] \o chunk)]
    /\ UNCHANGED <<pc, c2s>>
    /\ ServerUnchanged

\* a download_file that does not compare the digests
ClientDownloadVerify_trusting ==
    /\ cl.pc = "dl_recv"
    /\ ~(cl.received < cl.filesize)
    /\ cl' = [Returned(cl) EXCEPT
                  !.downloaded = [called |-> TRUE, ret |-> TRUE, filename |-> cl.filename,
                                  content |-> cl.downloads[cl.filename],
                                  hash |-> cl.file_hash, verified |-> TRUE]]
    /\ UNCHANGED <<pc, c2s, s2c>>
    /\ ServerUnchanged

\* after the loop: the accumulated digest against that of the ready response;
\* on a mismatch the local file is removed
ClientDownloadVerify ==
    /\ cl.pc = "dl_recv"
    /\ ~(cl.received < cl.filesize)
    /\ LET calculated_hash == HexDigest(cl.hash_obj)
           ok == calculated_hash = cl.file_hash
       IN cl' = [Returned(cl) EXCEPT
                    !.downloads = IF ok THEN @ ELSE RemoveFile(@, cl.filename),
                    !.downloaded = [called |-> TRUE, ret |-> ok, filename |-> cl.filename,
                                    content |-> IF ok THEN cl.downloads[cl.filename] ELSE <<>>,
                                    hash |-> cl.file_hash, verified |-> TRUE]]
    /\ UNCHANGED <<pc, c2s, s2c>>
    /\ ServerUnchanged

\* list_files up to the LIST request
ClientListStart ==
    /\ cl.pc = "idle"
    /\ cl.socket \in Conns
    /\ cl.calls < MaxCalls
    /\ ClientSend(MsgItem([command |-> "LIST"]))
    /\ cl' = [SendRequest(cl, [command |-> "LIST"]) EXCEPT !.pc = "ls_wait", !.listed = NoCall]
    /\ UNCHANGED <<pc, s2c>>
    /\ ServerUnchanged

\* the response to the LIST request: the files of a 'success', else []
ClientListDone ==
    /\ cl.pc = "ls_wait"
    /\ s2c[cl.socket] # <<>>
    /\ LET item == Head(s2c[cl.socket])
           ok == item.kind = "msg" /\ Get(item.m, "status", "None") = "success"
       IN cl' = [Returned(GotResponse(cl)) EXCEPT !.listed =
                    [called |-> TRUE, ret |-> ok, filename |-> NoName,
                     content |-> <<>>, hash |-> 0]]
    /\ s2c' = [s2c EXCEPT ![cl.socket] = Tail(@)]
    /\ UNCHANGED <<pc, c2s>>
    /\ ServerUnchanged

Client ==
    \/ ClientConnect
    \/ ClientUploadStart \/ ClientUploadReady \/ ClientUploadSend \/ ClientUploadConfirm
    \/ ClientDownloadStart \/ ClientDownloadReady \/ ClientDownloadRecv
    \/ ClientDownloadVerify
    \/ ClientListStart \/ ClientListDone

\* ------------------------------------------------------- client under faults
\* a send_request that retries once more
retries_more == 2 + 1

\* send_request: retries = 2
retries == 2

\* a socket object that is not connected: what connect() leaves when it fails
Unconnected == -1

\* where the client stands while send_request waits for the response
WaitPcs == {"up_wait", "dl_wait", "ls_wait", "rs_wait"}

\* upload_file returns False
UploadFailed(state) ==
    [Returned(state) EXCEPT !.uploaded =
        [called |-> TRUE, ret |-> FALSE, filename |-> state.filename,
         content |-> state.filepath, hash |-> 0]]

\* an except branch that leaves the partial file in the download directory
DownloadFailed_keeps(state) ==
    [Returned(state) EXCEPT !.downloaded =
        [called |-> TRUE, ret |-> FALSE, filename |-> state.filename,
         content |-> <<>>, hash |-> state.file_hash, verified |-> FALSE]]

\* the except branch of download_file: the partial file is removed and the
\* call returns False; the digests have not been compared
DownloadFailed(state) ==
    [Returned(state) EXCEPT !.downloads = RemoveFile(@, state.filename),
                            !.downloaded =
        [called |-> TRUE, ret |-> FALSE, filename |-> state.filename,
         content |-> <<>>, hash |-> state.file_hash, verified |-> FALSE]]

\* what upload_file, download_file, list_files return when send_request
\* returned None
SendRequestFailed(state) ==
    IF state.pc = "rs_wait" THEN DownloadFailed(state)
    ELSE IF state.pc = "up_wait"
    THEN [Returned(state) EXCEPT !.uploaded =
             [called |-> TRUE, ret |-> FALSE, filename |-> state.filename,
              content |-> state.filepath, hash |-> 0]]
    ELSE IF state.pc = "dl_wait"
    THEN [Returned(state) EXCEPT !.downloaded =
             [called |-> TRUE, ret |-> FALSE, filename |-> state.filename,
              content |-> <<>>, hash |-> 0]]
    ELSE [Returned(state) EXCEPT !.listed =
             [called |-> TRUE, ret |-> FALSE, filename |-> NoName,
              content |-> <<>>, hash |-> 0]]

\* the network: the connection of the client's socket stops working; the
\* worker finds its peer gone
LinkDown ==
    /\ cl.socket \in Conns
    /\ cl.link
    /\ cl.pc # "raised"
    /\ cl' = [cl EXCEPT !.link = FALSE]
    /\ peerClosed' = [peerClosed EXCEPT ![cl.socket] = TRUE]
    /\ UNCHANGED <<files, versions, now, listener, pc, wk, c2s, s2c, run>>

\* send_request: no response came (socket.timeout, ConnectionError, an empty
\* read); retry_count is still within retries, and the request is sent again
SendRequestRetry ==
    /\ cl.pc \in WaitPcs
    /\ s2c[cl.socket] = <<>>
    /\ cl.retry_count + 1 <= retries
    /\ ClientSend(MsgItem(cl.request))
    /\ cl' = [cl EXCEPT !.retry_count = @ + 1, !.sends = @ + 1,
                        !.unanswered = IF cl.link THEN @ + 1 ELSE @]
    /\ UNCHANGED <<pc, s2c>>
    /\ ServerUnchanged

\* send_request: no response came and the retries are used up: close(), one
\* connect(), which the listener accepts or which fails, and None is returned
SendRequestGiveUp ==
    /\ cl.pc \in WaitPcs
    /\ s2c[cl.socket] = <<>>
    /\ ~(cl.retry_count + 1 <= retries)
    /\ \/ \E c \in Conns \ {cl.socket} :
             /\ pc[c] \in {"free", "closed"}
             /\ pc' = [pc EXCEPT ![c] = "idle"]
             /\ c2s' = [c2s EXCEPT ![c] = <<>>]
             /\ s2c' = [s2c EXCEPT ![c] = <<>>]
             /\ peerClosed' = [peerClosed EXCEPT ![cl.socket] = TRUE, ![c] = FALSE]
             /\ cl' = [SendRequestFailed(cl) EXCEPT !.socket = c, !.link = TRUE,
                                                    !.unanswered = 0, !.connects = @ + 1]
       \/ /\ peerClosed' = [peerClosed EXCEPT ![cl.socket] = TRUE]
          /\ cl' = [SendRequestFailed(cl) EXCEPT !.socket = Unconnected, !.link = FALSE,
                                                 !.unanswered = 0, !.connects = @ + 1]
          /\ UNCHANGED <<pc, c2s, s2c>>
    /\ UNCHANGED <<files, versions, now, listener, wk, run>>

\* download_file: the sendall of the readiness acknowledgment stands outside
\* every try; on a connection that no longer works it raises to the caller
ClientDownloadAckRaises ==
    /\ cl.pc = "dl_wait"
    /\ ~cl.link
    /\ s2c[cl.socket] # <<>>
    /\ LET item == Head(s2c[cl.socket]) IN
        /\ item.kind = "msg"
        /\ Get(item.m, "status", "None") = "ready"
        /\ Get(item.m, "filesize", 0) # 0
        /\ Get(item.m, "hash", 0) # 0
    /\ cl' = [GotResponse(cl) EXCEPT !.pc = "raised"]
    /\ s2c' = [s2c EXCEPT ![cl.socket] = Tail(@)]
    /\ UNCHANGED <<pc, c2s>>
    /\ ServerUnchanged

ClientFault == LinkDown \/ SendRequestRetry \/ SendRequestGiveUp \/ ClientDownloadAckRaises

\* upload_file: sendall raises socket.timeout or socket.error on a connection
\* that no longer works; both are re-raised as Exception and the call returns
\* False
ClientUploadSendFails ==
    /\ cl.pc = "up_send"
    /\ cl.sent < cl.filesize
    /\ ReadAt(cl.filepath, cl.sent, ChunkSize) # <<>>
    /\ ~cl.link
    /\ cl' = UploadFailed(cl)
    /\ UNCHANGED <<pc, c2s, s2c>>
    /\ ServerUnchanged

\* upload_file: no confirmation: the read times out, or it is empty because
\* the worker has closed the connection; the call returns False
ClientUploadConfirmFails ==
    /\ cl.pc = "up_send"
    /\ ~(cl.sent < cl.filesize /\ ReadAt(cl.filepath, cl.sent, ChunkSize) # <<>>)
    /\ s2c[cl.socket] = <<>>
    /\ cl' = UploadFailed(cl)
    /\ UNCHANGED <<pc, c2s, s2c>>
    /\ ServerUnchanged

\* reconnect_and_resume_download(filename, received): the offset of the
\* resume request
resume_offset(received) == received

\* reconnect_and_resume_download closes the socket and connects; connected, it
\* sends the DOWNLOAD request with the resume offset; else the call fails
ResumeDownload ==
    /\ LET request == [command |-> "DOWNLOAD", filename |-> cl.filename,
                       resume_offset |-> resume_offset(cl.received)]
       IN \/ \E c \in Conns \ {cl.socket} :
                /\ listener.accepting
                /\ pc[c] \in {"free", "closed"}
                /\ pc' = [pc EXCEPT ![c] = "idle"]
                /\ c2s' = [c2s EXCEPT ![c] = <<MsgItem(request)>>]
                /\ s2c' = [s2c EXCEPT ![c] = <<>>]
                /\ peerClosed' = [peerClosed EXCEPT ![cl.socket] = TRUE, ![c] = FALSE]
                /\ cl' = [cl EXCEPT !.pc = "rs_wait", !.socket = c, !.link = TRUE,
                                    !.request = request, !.retry_count = 0,
                                    !.sends = 1, !.connects = 0, !.unanswered = 1,
                                    !.resumes = Min(@ + 1, MaxResumes)]
          \/ /\ peerClosed' = [peerClosed EXCEPT ![cl.socket] = TRUE]
             /\ cl' = DownloadFailed([cl EXCEPT !.socket = Unconnected, !.link = FALSE])
             /\ UNCHANGED <<pc, c2s, s2c>>
    /\ UNCHANGED <<files, versions, now, listener, wk, run>>

\* download_file: the read of the receive loop times out: nothing has arrived
\* and the end of the stream has not arrived either
ClientDownloadTimeout ==
    /\ cl.pc = "dl_recv"
    /\ cl.received < cl.filesize
    /\ s2c[cl.socket] = <<>>
    /\ pc[cl.socket] # "closed" \/ ~cl.link
    /\ ResumeDownload

\* a receive loop that resumes after an empty read or a socket error too
ClientDownloadRecvFails_resumes ==
    /\ cl.pc = "dl_recv"
    /\ cl.received < cl.filesize
    /\ s2c[cl.socket] = <<>>
    /\ pc[cl.socket] = "closed" \/ ~cl.link
    /\ ResumeDownload

\* download_file: the read of the receive loop is empty (the worker closed the
\* connection) or raises socket.error: the call fails, no resume
ClientDownloadRecvFails ==
    /\ cl.pc = "dl_recv"
    /\ cl.received < cl.filesize
    /\ s2c[cl.socket] = <<>>
    /\ pc[cl.socket] = "closed" \/ ~cl.link
    /\ cl' = DownloadFailed(cl)
    /\ UNCHANGED <<pc, c2s, s2c>>
    /\ ServerUnchanged


\* reconnect_and_resume_download: the response to the resume request: 'ready'
\* is acknowledged and the receive loop goes on with the same file, count and
\* hash object; anything else, or an acknowledgment that cannot be sent, fails
\* the call
ClientResumeReady ==
    /\ cl.pc = "rs_wait"
    /\ s2c[cl.socket] # <<>>
    /\ LET item == Head(s2c[cl.socket])
           ready == item.kind = "msg" /\ Get(item.m, "status", "None") = "ready"
       IN \/ /\ ready
             /\ ClientSend(MsgItem(ReadyAck))
             /\ cl' = [GotResponse(cl) EXCEPT !.pc = "dl_recv", !.request = NoReq,
                                              !.retry_count = 0]
          \/ /\ ~ready \/ ~cl.link
             /\ UNCHANGED c2s
             /\ cl' = DownloadFailed(GotResponse(cl))
    /\ s2c' = [s2c EXCEPT ![cl.socket] = Tail(@)]
    /\ UNCHANGED pc
    /\ ServerUnchanged

\* another client's upload of a.txt completes while the download is under way
OtherUploadCompletes ==
    /\ cl.pc \in {"dl_recv", "rs_wait"}
    /\ FileA \in DOMAIN files
    /\ run.k < 1
    /\ \E content \in UploadContents \ {<<>>, files[FileA]} :
          files' = WriteFile(files, FileA, content)
    /\ run' = RunEnded(TRUE)
    /\ UNCHANGED <<versions, now, listener, pc, wk, c2s, s2c, peerClosed, cl>>

ClientTransferFault ==
    \/ ClientUploadSendFails \/ ClientUploadConfirmFails
    \/ ClientDownloadRecvFails \/ ClientDownloadTimeout \/ ClientResumeReady

\* the worker's steps when nothing fails: no timeout, no closed peer
WorkerServes(c) ==
    \/ RecvRequest(c)
    \/ UploadResolve(c) \/ UploadArchive(c) \/ UploadReady(c) \/ UploadOpen(c)
    \/ UploadRecv(c) \/ UploadVerify(c)
    \/ DownloadStart(c) \/ DownloadAck(c) \/ DownloadSend(c) \/ DownloadDone(c)
    \/ HandleList(c)

\* nothing is connected yet
InitRT ==
    /\ files = EmptyFn
    /\ versions = EmptyFn
    /\ now = 0
    /\ listener = InitListener
    /\ pc = [c \in Conns |-> "free"]
    /\ wk = [c \in Conns |-> InitWk]
    /\ c2s = [c \in Conns |-> <<>>]
    /\ s2c = [c \in Conns |-> <<>>]
    /\ peerClosed = [c \in Conns |-> FALSE]
    /\ run = [mode |-> "none", k |-> 0]
    /\ cl = InitCl

NextRT == Client \/ \E c \in Conns : WorkerServes(c)

\* the client and the server over a network that does not fail
SpecRT == InitRT /\ [][NextRT]_vars

\* the storage root holds what earlier runs left in it: nothing, or the file
\* a.txt with some content
InitCF ==
    /\ files \in {EmptyFn} \cup {WriteFile(EmptyFn, FileA, content) : content \in UploadContents}
    /\ versions = EmptyFn
    /\ now = 0
    /\ listener = InitListener
    /\ pc = [c \in Conns |-> "free"]
    /\ wk = [c \in Conns |-> InitWk]
    /\ c2s = [c \in Conns |-> <<>>]
    /\ s2c = [c \in Conns |-> <<>>]
    /\ peerClosed = [c \in Conns |-> FALSE]
    /\ run = [mode |-> "none", k |-> 0]
    /\ cl = InitCl

\* the calls of a client that downloads and lists
ClientReads ==
    \/ ClientConnect
    \/ ClientDownloadStart \/ ClientDownloadReady \/ ClientDownloadRecv
    \/ ClientDownloadVerify
    \/ ClientListStart \/ ClientListDone

\* the worker's steps for such a client, timeouts and a vanished peer included
WorkerReads(c) ==
    \/ RecvRequest(c) \/ DispatcherEOF(c) \/ DispatcherTimeout(c)
    \/ DownloadStart(c) \/ DownloadAck(c) \/ DownloadAckEOF(c) \/ DownloadAckTimeout(c)
    \/ DownloadSend(c) \/ DownloadDone(c)
    \/ HandleList(c)

NextCF == ClientReads \/ ClientFault \/ \E c \in Conns : WorkerReads(c)

\* a client that downloads and lists, and the server, over a network that may
\* fail and with reads that may time out
SpecCF == InitCF /\ [][NextCF]_vars

\* ------------------------------------------------------ transfers under faults
\* the storage root holds a.txt, of the greatest length
InitCR ==
    /\ files = WriteFile(EmptyFn, FileA, [i \in 1..MaxLen |-> IF i = MaxLen THEN 1 ELSE 0])
    /\ versions = EmptyFn
    /\ now = 0
    /\ listener = InitListener
    /\ pc = [c \in Conns |-> "free"]
    /\ wk = [c \in Conns |-> InitWk]
    /\ c2s = [c \in Conns |-> <<>>]
    /\ s2c = [c \in Conns |-> <<>>]
    /\ peerClosed = [c \in Conns |-> FALSE]
    /\ run = [mode |-> "none", k |-> 0]
    /\ cl = InitCl

\* a client that makes one call: it uploads a file that replaces a.txt, or it
\* downloads a.txt
ClientOneUpload == cl.calls = 0 /\ ClientUploadStartWith({[i \in 1..MaxLen |-> 0]}, Modes)
ClientOneDownload == cl.calls = 0 /\ ClientDownloadStart

ClientTransfers ==
    \/ ClientConnect
    \/ ClientOneUpload \/ ClientUploadReady \/ ClientUploadSend \/ ClientUploadConfirm
    \/ ClientOneDownload \/ ClientDownloadReady \/ ClientDownloadRecv \/ ClientDownloadVerify

\* the worker's steps for such a client
WorkerTransfers(c) ==
    \/ RecvRequest(c) \/ DispatcherEOF(c) \/ DispatcherTimeout(c)
    \/ UploadResolve(c) \/ UploadArchive(c) \/ UploadReady(c) \/ UploadOpen(c)
    \/ UploadRecv(c) \/ UploadRecvEOF(c) \/ UploadRecvTimeout(c) \/ UploadVerify(c)
    \/ DownloadStart(c) \/ DownloadAck(c) \/ DownloadAckEOF(c) \/ DownloadAckTimeout(c)
    \/ DownloadSend(c) \/ DownloadDone(c)

NextCR ==
    \/ ClientTransfers \/ ClientFault \/ ClientTransferFault \/ OtherUploadCompletes
    \/ \E c \in Conns : WorkerTransfers(c)

\* a client that uploads and downloads, and the server, over a network that
\* may fail and with reads that may time out
SpecCR == InitCR /\ [][NextCR]_vars

\* ------------------------------------------------------ a download under faults
\* the storage root holds a.txt; the download directory is empty or holds an
\* a.txt that an earlier run left there
InitCD ==
    /\ files = WriteFile(EmptyFn, FileA, [i \in 1..MaxLen |-> IF i = MaxLen THEN 1 ELSE 0])
    /\ versions = EmptyFn
    /\ now = 0
    /\ listener = InitListener
    /\ pc = [c \in Conns |-> "free"]
    /\ wk = [c \in Conns |-> InitWk]
    /\ c2s = [c \in Conns |-> <<>>]
    /\ s2c = [c \in Conns |-> <<>>]
    /\ peerClosed = [c \in Conns |-> FALSE]
    /\ run = [mode |-> "none", k |-> 0]
    /\ cl \in {InitCl, [InitCl EXCEPT !.downloads = WriteFile(EmptyFn, FileA, <<0>>)]}

\* a client that makes one call of download_file
ClientDownloads ==
    \/ ClientConnect
    \/ ClientOneDownload \/ ClientDownloadReady \/ ClientDownloadRecv \/ ClientDownloadVerify
    \/ ClientDownloadRecvFails \/ ClientDownloadTimeout \/ ClientResumeReady

\* the worker's steps for such a client, timeouts and a vanished peer included
WorkerDownloads(c) ==
    \/ RecvRequest(c) \/ DispatcherEOF(c) \/ DispatcherTimeout(c)
    \/ DownloadStart(c) \/ DownloadAck(c) \/ DownloadAckEOF(c) \/ DownloadAckTimeout(c)
    \/ DownloadSend(c) \/ DownloadDone(c)

NextCD ==
    \/ ClientDownloads \/ ClientFault \/ OtherUploadCompletes
    \/ \E c \in Conns : WorkerDownloads(c)

\* one download, and the server, over a network that may fail and with reads
\* that may time out

SpecCD == InitCD /\ [][NextCD]_vars

\* the client's own steps: every blocking socket operation of a call
\* completes or times out, so a call that can take a step takes one
ClientMoves ==
    \/ ClientTransfers
    \/ SendRequestRetry \/ SendRequestGiveUp \/ ClientDownloadAckRaises
    \/ ClientTransferFault

\* the same, with a client that does not block for ever and workers that run
SpecCRLive ==
    /\ InitCR /\ [][NextCR]_vars
    /\ WF_vars(ClientMoves)
    /\ \A c \in Conns : WF_vars(WorkerTransfers(c))

\* ------------------------------------------------- several connections at once
\* the storage root holds a.txt
InitMC ==
    /\ files = WriteFile(EmptyFn, FileA, <<0>>)
    /\ versions = EmptyFn
    /\ now = 0
    /\ listener = InitListener
    /\ pc = [c \in Conns |-> "free"]
    /\ wk = [c \in Conns |-> InitWk]
    /\ c2s = [c \in Conns |-> <<>>]
    /\ s2c = [c \in Conns |-> <<>>]
    /\ peerClosed = [c \in Conns |-> FALSE]
    /\ run = [mode |-> "none", k |-> 0]
    /\ cl = InitCl

\* a peer that makes one request on its connection: it uploads a.txt under
\* rename or versioning
PeerUploads(c) ==
    /\ pc[c] = "idle"
    /\ c2s[c] = <<>>
    /\ s2c[c] = <<>>
    /\ ~peerClosed[c]
    /\ \E handling_mode \in {"rename", "versioning"} :
          c2s' = [c2s EXCEPT ![c] =
                     <<MsgItem(UploadReq(FileA, 1, CalculateFileHash(<<1>>), handling_mode))>>]
    /\ UNCHANGED <<files, versions, now, listener, pc, wk, s2c, peerClosed, run, cl>>

\* ... and sends the payload it declared, or a byte that does not match the
\* digest it declared
PeerSendsPayload(c) ==
    /\ pc[c] = "up_recv"
    /\ c2s[c] = <<>>
    /\ wk[c].received = 0
    /\ ~peerClosed[c]
    /\ \E b \in Bytes : c2s' = [c2s EXCEPT ![c] = <<DataItem(<<b>>)>>]
    /\ UNCHANGED <<files, versions, now, listener, pc, wk, s2c, peerClosed, run, cl>>

\* the worker's steps of an upload; a peer that stays silent makes the read
\* time out after five minutes
WorkerUploads(c) ==
    \/ RecvRequest(c)
    \/ UploadResolve(c) \/ UploadArchive(c) \/ UploadReady(c) \/ UploadOpen(c)
    \/ UploadRecv(c) \/ UploadRecvTimeout(c) \/ UploadVerify(c)

NextMC ==
    \/ AcceptError
    \/ \E c \in Conns : Accept(c) \/ PeerUploads(c) \/ PeerSendsPayload(c) \/ WorkerUploads(c)

\* the listener, its workers and their peers
SpecMC == InitMC /\ [][NextMC]_vars

\* ---------------------------------------- two files with the same base name
\* a file without extension
FileNoExt == Fname("a", <<>>, "")

\* the storage root holds a and a.txt
InitVH ==
    /\ files = WriteFile(WriteFile(EmptyFn, FileA, <<0>>), FileNoExt, <<0>>)
    /\ versions = EmptyFn
    /\ now = 0
    /\ listener = InitListener
    /\ pc = [c \in Conns |-> IF c = 1 THEN "idle" ELSE "free"]
    /\ wk = [c \in Conns |-> InitWk]
    /\ c2s = [c \in Conns |-> <<>>]
    /\ s2c = [c \in Conns |-> <<>>]
    /\ peerClosed = [c \in Conns |-> FALSE]
    /\ run = [mode |-> "none", k |-> 0]
    /\ cl = InitCl

\* a handling mode that check_file_exists does not know
OtherMode == "merge"

\* a peer that uploads a or a.txt, under versioning or under a handling mode
\* that the server does not know, or asks for the listing
PeerArchivesOrLists(c) ==
    /\ pc[c] = "idle"
    /\ c2s[c] = <<>>
    /\ ~peerClosed[c]
    /\ run.k < MaxUploads
    /\ \E request \in {UploadReq(f, 1, CalculateFileHash(<<1>>), m) :
                            f \in {FileA, FileNoExt}, m \in {"versioning", OtherMode}}
                       \cup {[command |-> "LIST"]} :
          c2s' = [c2s EXCEPT ![c] = <<MsgItem(request)>>]
    /\ s2c' = [s2c EXCEPT ![c] = <<>>]
    /\ UNCHANGED <<files, versions, now, listener, pc, wk, peerClosed, run, cl>>

\* the worker's steps for such a peer
WorkerArchivesOrLists(c) ==
    \/ RecvRequest(c)
    \/ UploadResolve(c) \/ UploadArchive(c) \/ UploadReady(c) \/ UploadOpen(c)
    \/ UploadRecv(c) \/ UploadRecvTimeout(c) \/ UploadVerify(c)
    \/ HandleList(c)

NextVH == PeerArchivesOrLists(1) \/ PeerSendsPayload(1) \/ WorkerArchivesOrLists(1)

\* uploads and listings of a and a.txt on one connection
SpecVH == InitVH /\ [][NextVH]_vars

\* ------------------------------------------- an upload and a reader at once
\* a peer that makes one request on its connection: it uploads a.txt, of the
\* greatest length, under overwrite
PeerStores(c) ==
    /\ pc[c] = "idle"
    /\ c2s[c] = <<>>
    /\ s2c[c] = <<>>
    /\ ~peerClosed[c]
    /\ c2s' = [c2s EXCEPT ![c] =
                   <<MsgItem(UploadReq(FileA, MaxLen, CalculateFileHash([i \in 1..MaxLen |-> 1]),
                                       "overwrite"))>>]
    /\ UNCHANGED <<files, versions, now, listener, pc, wk, s2c, peerClosed, run, cl>>

\* ... and sends as many bytes as it declared, one by one, which may be other
\* bytes than those it declared
PeerSendsByte(c) ==
    /\ pc[c] = "up_recv"
    /\ wk[c].received < wk[c].filesize
    /\ c2s[c] = <<>>
    /\ ~peerClosed[c]
    /\ \E b \in Bytes : c2s' = [c2s EXCEPT ![c] = <<DataItem(<<b>>)>>]
    /\ UNCHANGED <<files, versions, now, listener, pc, wk, s2c, peerClosed, run, cl>>

\* a peer that makes one request on its connection: DOWNLOAD of a.txt, or LIST
PeerFetches(c) ==
    /\ pc[c] = "idle"
    /\ c2s[c] = <<>>
    /\ s2c[c] = <<>>
    /\ ~peerClosed[c]
    /\ \E request \in {[command |-> "DOWNLOAD", filename |-> FileA], [command |-> "LIST"]} :
          c2s' = [c2s EXCEPT ![c] = <<MsgItem(request)>>]
    /\ UNCHANGED <<files, versions, now, listener, pc, wk, s2c, peerClosed, run, cl>>

\* ... and acknowledges the 'ready' of its download
PeerAcks(c) ==
    /\ pc[c] = "dl_ack"
    /\ c2s[c] = <<>>
    /\ ~peerClosed[c]
    /\ c2s' = [c2s EXCEPT ![c] = <<MsgItem(ReadyAck)>>]
    /\ UNCHANGED <<files, versions, now, listener, pc, wk, s2c, peerClosed, run, cl>>

\* the worker's steps for such peers; a peer that stays silent makes the read
\* time out
WorkerStoring(c) ==
    \/ RecvRequest(c)
    \/ UploadResolve(c) \/ UploadReady(c) \/ UploadOpen(c)
    \/ UploadRecv(c) \/ UploadRecvTimeout(c) \/ UploadVerify(c)

WorkerFetching(c) ==
    \/ RecvRequest(c)
    \/ DownloadStart(c) \/ DownloadAck(c) \/ DownloadAckTimeout(c)
    \/ DownloadSend(c) \/ DownloadDone(c)
    \/ HandleList(c)

\* connection 1 is the uploader's, connection 2 the reader's
NextUD ==
    \/ \E c \in Conns : Accept(c)
    \/ PeerStores(1) \/ PeerSendsByte(1) \/ WorkerStoring(1)
    \/ PeerFetches(2) \/ PeerAcks(2) \/ WorkerFetching(2)

\* uploads, downloads and listings of a.txt on connections served at once
SpecUD == InitMC /\ [][NextUD]_vars

\* ============================================================== properties
Last(q) == q[Len(q)]

\* the payload bytes among what the worker sent on c since the last request
RECURSIVE BytesOf(_)
BytesOf(q) ==
    IF q = <<>> THEN <<>>
    ELSE (IF Head(q).kind = "data" THEN Head(q).bytes ELSE <<>>) \o BytesOf(Tail(q))

Streamed(c) == BytesOf(s2c[c])

\* the last thing sent on c is a JSON response with this status
LastStatus(c, status) ==
    /\ s2c[c] # <<>>
    /\ Last(s2c[c]).kind = "msg"
    /\ Get(Last(s2c[c]).m, "status", "None") = status

\* the step appends exactly this response on c, or (the send raised) nothing
SendsOnly(c, response_data) ==
    \/ s2c'[c] = s2c[c]
    \/ s2c'[c] = Append(s2c[c], MsgItem(response_data))

\* the worker of c is back in the dispatcher after an upload that succeeded
JustSucceeded(c) ==
    /\ pc[c] = "idle"
    /\ Len(s2c[c]) = 2
    /\ s2c[c][1].kind = "msg" /\ Get(s2c[c][1].m, "status", "None") = "ready"
    /\ LastStatus(c, "success")
    /\ "hash" \in DOMAIN Last(s2c[c]).m

ResolvedName(c) == s2c[c][1].m.filename

\* C1: when handle_upload has received the whole declared size, the digest it
\* computed is that of the bytes it wrote; the target file is kept only if that
\* digest equals the declared one; on a mismatch the target is gone when the
\* error response, which carries the expected and the received digest, is sent.
C1_UploadIntegrity ==
    [][\A c \in Conns :
        (pc[c] = "up_recv" /\ ~(wk[c].received < wk[c].filesize) /\ pc'[c] # "up_recv")
        => LET target == wk[c].new_filename
               declared == wk[c].file_hash
               computed == HexDigest(wk[c].hash_obj)
           IN /\ computed = CalculateFileHash(files[target])
              /\ target \in DOMAIN files' =>
                    computed = declared /\ CalculateFileHash(files'[target]) = declared
              /\ computed # declared =>
                    /\ target \notin DOMAIN files'
                    /\ SendsOnly(c, [status |-> "error", message |-> "File corruption detected",
                                     expected_hash |-> declared, received_hash |-> computed])
      ]_vars

\* a digest mismatch was answered and the target is not in the storage root
C1_Witness ==
    \E c \in Conns :
        /\ pc[c] = "idle"
        /\ LastStatus(c, "error")
        /\ "received_hash" \in DOMAIN Last(s2c[c]).m
        /\ Last(s2c[c]).m.received_hash # Sha256New
        /\ FileA \notin DOMAIN files

\* C3: a DOWNLOAD with 0 <= resume_offset < filesize is answered 'ready' with
\* the size, the offset and the digest of the whole file; what is streamed is the
\* file from the offset on, and when the send loop ends it is exactly the
\* filesize - offset bytes that complete the first offset bytes to the file.
C3_ResumeCorrect ==
    \A c \in Conns :
        (pc[c] \in {"dl_ack", "dl_send"} /\ wk[c].request.filename \in DOMAIN files)
        => LET content == files[wk[c].request.filename]
               S == Len(content)
               o == wk[c].resume_offset
           IN (0 <= o /\ o < S) =>
                /\ s2c[c] # <<>>
                /\ Head(s2c[c]) = MsgItem([status |-> "ready", filesize |-> S,
                                           hash |-> CalculateFileHash(content),
                                           resuming_from |-> o])
                /\ pc[c] = "dl_ack" => Streamed(c) = <<>>
                /\ pc[c] = "dl_send" =>
                      Streamed(c) = SubSeq(content, o + 1, o + wk[c].bytes_sent)
                /\ (pc[c] = "dl_send" /\ ENABLED DownloadDone(c)) =>
                      /\ Len(Streamed(c)) = S - o
                      /\ Take(content, o) \o Streamed(c) = content

\* a resumed download (offset >= 1) whose send loop has ended
C3_Witness ==
    \E c \in Conns :
        /\ pc[c] = "dl_send"
        /\ wk[c].resume_offset >= 1
        /\ wk[c].bytes_sent >= 1
        /\ ENABLED DownloadDone(c)

\* C4: a DOWNLOAD with resume_offset >= filesize is never answered 'ready',
\* whatever the size of the file (0 included).
C4_InvalidOffsetRejected ==
    \A c \in Conns :
        (pc[c] \in {"dl_ack", "dl_send"} /\ wk[c].request.filename \in DOMAIN files)
        => wk[c].resume_offset < Len(files[wk[c].request.filename])

\* C5: a DOWNLOAD is answered 'ready' only if its resume offset is not
\* negative, and for a negative offset nothing is streamed.
C5_OffsetNotNegative ==
    \A c \in Conns :
        /\ pc[c] \in {"dl_ack", "dl_send"} => wk[c].resume_offset >= 0
        /\ (pc[c] = "dl_send" /\ wk[c].resume_offset < 0) => Streamed(c) = <<>>

\* C6: when the peer closes before the declared size has arrived, the handler
\* returns with the partial target removed and sends nothing but an error
\* response; a 'success' (other than the listing of LIST) is sent only by an
\* upload that got its declared size.
C6_EarlyEndAborts ==
    [][\A c \in Conns :
        /\ (pc[c] = "up_recv" /\ wk[c].received < wk[c].filesize
                /\ c2s[c] = <<>> /\ peerClosed[c] /\ pc'[c] # "up_recv")
           => /\ wk[c].new_filename \notin DOMAIN files'
              /\ pc'[c] \in {"idle", "closed"}
              /\ SendsOnly(c, [status |-> "error", message |-> "File transfer error",
                               cause |-> "Connection closed during file transfer"])
        /\ (s2c'[c] # s2c[c] /\ s2c'[c] # <<>> /\ Last(s2c'[c]).kind = "msg"
                /\ Get(Last(s2c'[c]).m, "status", "None") = "success"
                /\ "files" \notin DOMAIN Last(s2c'[c]).m)
           => (pc[c] = "up_recv" /\ ~(wk[c].received < wk[c].filesize))
      ]_vars

\* the error response of an upload cut short by the peer, its target removed
C6_Witness ==
    \E c \in Conns :
        /\ LastStatus(c, "error")
        /\ Get(Last(s2c[c]).m, "cause", "None") = "Connection closed during file transfer"
        /\ peerClosed[c]
        /\ FileA \notin DOMAIN files

\* an UPLOAD request without filename, filesize or hash
Lacks(request) == ~({"filename", "filesize", "hash"} \subseteq DOMAIN request)

\* C7: an UPLOAD that lacks a required field is answered with one error
\* response and nothing else happens: storage root and version root stay as
\* they are, no 'ready' is sent, nothing is read from the connection.
C7_MissingFieldNoEffect ==
    [][\A c \in Conns :
        (pc[c] = "upload" /\ Lacks(wk[c].request))
        => /\ files' = files
           /\ versions' = versions
           /\ c2s'[c] = c2s[c]
           /\ pc'[c] \in {"upload", "idle", "closed"}
           /\ SendsOnly(c, [status |-> "error", message |-> "Missing required information"])
           /\ pc'[c] = "idle" => s2c'[c] # s2c[c]
      ]_vars

\* the handler runs on a request that lacks a field while a file is stored
C7_Witness ==
    \E c \in Conns :
        /\ pc[c] = "upload"
        /\ Lacks(wk[c].request)
        /\ FileA \in DOMAIN files

\* C8: after N >= 1 successful uploads of a filename, all under 'overwrite', the
\* storage root holds that one file and nothing else, no version was archived,
\* and the file hashes to the digest of the last upload.
C8_OverwriteIdempotent ==
    \A c \in Conns :
        (JustSucceeded(c) /\ run.mode = "overwrite")
        => /\ run.k >= 1
           /\ DOMAIN files = {ResolvedName(c)}
           /\ ResolvedName(c) \in ReqNames
           /\ versions = EmptyFn
           /\ CalculateFileHash(files[ResolvedName(c)]) = Last(s2c[c]).m.hash

\* a second or later upload under 'overwrite' has succeeded
C8_Witness ==
    \E c \in Conns : JustSucceeded(c) /\ run.mode = "overwrite" /\ run.k >= 2

\* name.ext, name_v2.ext, name_v3.ext, ...
NthName(fn, i) == IF i = 1 THEN fn ELSE RenamedTo(fn, i)

\* C9: the K-th of K successful uploads of name.ext, all under 'rename', is
\* stored as name_vK.ext (name.ext for K = 1), the storage root then holds
\* name.ext, name_v2.ext, ..., name_vK.ext, and no upload under 'rename' opens
\* a target that exists.
C9_RenameMonotone ==
    \A c \in Conns :
        /\ (pc[c] = "up_open" /\ Get(wk[c].request, "handling_mode", "overwrite") = "rename")
           => wk[c].new_filename \notin DOMAIN files
        /\ (JustSucceeded(c) /\ run.mode = "rename")
           => /\ ResolvedName(c) = NthName(FileA, run.k)
              /\ DOMAIN files = {NthName(FileA, i) : i \in 1..run.k}

\* a third upload under 'rename' has succeeded
C9_Witness ==
    \E c \in Conns : JustSucceeded(c) /\ run.mode = "rename" /\ run.k >= 3

\* C10: after K successful uploads of a filename, all under 'versioning', the
\* version root holds K-1 archived versions and the storage root the one active
\* file, with the content of the last upload.
C10_VersioningCount ==
    \A c \in Conns :
        (JustSucceeded(c) /\ run.mode = "versioning")
        => /\ Cardinality(DOMAIN versions) = run.k - 1
           /\ DOMAIN files = {ResolvedName(c)}
           /\ CalculateFileHash(files[ResolvedName(c)]) = Last(s2c[c]).m.hash


\* C2: upload_file of a content C returns True with the digest of C in the
\* success response, and a download_file of the stored name that follows returns
\* True with the digest of C in the ready response and leaves a local file
\* equal to C; this for every C, the empty content included.
C2_RoundTrip ==
    /\ cl.uploaded.called =>
          /\ cl.uploaded.ret
          /\ cl.uploaded.hash = CalculateFileHash(cl.uploaded.content)
    /\ (cl.uploaded.called /\ cl.downloaded.called
            /\ cl.downloaded.filename = cl.uploaded.filename) =>
          /\ cl.downloaded.ret
          /\ cl.downloaded.hash = CalculateFileHash(cl.uploaded.content)
          /\ cl.downloaded.filename \in DOMAIN cl.downloads
          /\ cl.downloads[cl.downloaded.filename] = cl.uploaded.content

\* C11: once an archived version exists in the version root, no step of the
\* server (an UPLOAD in any mode, a DOWNLOAD, a LIST, whatever its outcome)
\* changes its content, replaces it or deletes it.
C11_VersionsImmutable ==
    [][\A p \in DOMAIN versions : p \in DOMAIN versions' /\ versions'[p] = versions[p]]_vars

\* the versioning upload to an existing filename that the worker of c handles
VersioningDuplicate(c) ==
    /\ wk[c].is_duplicate
    /\ Get(wk[c].request, "handling_mode", "overwrite") = "versioning"

\* the version root holds a copy of the active file of this name
ArchivedCopy(vs, filename) ==
    /\ filename \in DOMAIN files
    /\ \E p \in DOMAIN vs : p.dir = SplitName(filename) /\ vs[p] = files[filename]

\* C12: in a versioning upload to an existing filename the active file is not
\* touched from the arrival of the request until it is opened for writing;
\* archiving leaves a copy of it in the version root and the active file in
\* place with the same content; and the copy is there when 'ready' is sent and
\* when the active file is opened (truncated).
C12_ArchiveBeforeOverwrite ==
    [][\A c \in Conns :
        /\ pc[c] \in {"upload", "up_archive", "up_ready"} => files' = files
        /\ (pc[c] = "upload" /\ pc'[c] \in {"up_archive", "up_ready"}
                /\ wk'[c].is_duplicate
                /\ Get(wk[c].request, "handling_mode", "overwrite") = "versioning")
           => pc'[c] = "up_archive"
        /\ (pc[c] = "up_archive" /\ pc'[c] # "up_archive")
           => /\ pc'[c] = "up_ready"
              /\ s2c'[c] = s2c[c]
              /\ ArchivedCopy(versions', wk[c].request.filename)
        /\ (pc[c] \in {"up_ready", "up_open"} /\ pc'[c] # pc[c] /\ VersioningDuplicate(c))
           => ArchivedCopy(versions, wk[c].request.filename)
      ]_vars

\* the active file has just been truncated and its former content, which is
\* not empty, is in the version root
C12_Witness ==
    \E c \in Conns :
        /\ pc[c] = "up_recv"
        /\ VersioningDuplicate(c)
        /\ wk[c].received = 0
        /\ files[wk[c].new_filename] = <<>>
        /\ \E p \in DOMAIN versions : p.dir = SplitName(wk[c].new_filename) /\ versions[p] # <<>>

\* the step appends a run of payload bytes to what the worker of c has sent
SendsPayload(c) ==
    /\ Len(s2c'[c]) = Len(s2c[c]) + 1
    /\ Last(s2c'[c]).kind = "data"

\* C13: the server sends payload bytes only from the send loop of a download,
\* and it enters that loop only by reading an acknowledgment with status
\* 'ready' after its own 'ready' response; when the acknowledgment is missing
\* (peer closed, timeout), undecodable or carries another status the handler
\* returns and has sent nothing.
C13_AckGating ==
    [][\A c \in Conns :
        /\ SendsPayload(c) => pc[c] = "dl_send"
        /\ (pc'[c] = "dl_send" /\ pc[c] # "dl_send")
           => /\ pc[c] = "dl_ack"
              /\ c2s[c] # <<>>
              /\ Head(c2s[c]) = MsgItem(ReadyAck)
              /\ LastStatus(c, "ready")
              /\ Streamed(c) = <<>>
        /\ (pc[c] = "dl_ack" /\ pc'[c] # "dl_ack"
                /\ (c2s[c] = <<>> \/ Head(c2s[c]) # MsgItem(ReadyAck)))
           => (pc'[c] = "idle" /\ s2c'[c] = s2c[c])
      ]_vars

\* payload has been streamed after an acknowledged 'ready'
C13_Witness ==
    \E c \in Conns :
        /\ pc[c] = "dl_send"
        /\ Streamed(c) # <<>>
        /\ s2c[c][1].kind = "msg" /\ Get(s2c[c][1].m, "status", "None") = "ready"

\* C14: a DOWNLOAD that names a file which is not in the storage root is
\* answered by one 'File not found' error response and the handler returns to
\* the dispatcher: no 'ready', no wait for an acknowledgment, no payload and
\* nothing read from the connection; the connection stays open (unless the
\* peer has already closed it and the send fails).
C14_NotFound ==
    [][\A c \in Conns :
        (pc[c] = "download" /\ pc'[c] # "download"
             /\ "filename" \in DOMAIN wk[c].request
             /\ wk[c].request.filename \notin DOMAIN files)
        => /\ SendsOnly(c, [status |-> "error", message |-> "File not found"])
           /\ pc'[c] \in {"idle", "closed"}
           /\ ~peerClosed[c] =>
                 /\ pc'[c] = "idle"
                 /\ s2c'[c] = Append(s2c[c], MsgItem([status |-> "error",
                                                      message |-> "File not found"]))
           /\ c2s'[c] = c2s[c]
           /\ files' = files /\ versions' = versions
      ]_vars

\* the worker is back in the dispatcher after 'File not found', the peer still
\* connected
C14_Witness ==
    \E c \in Conns :
        /\ pc[c] = "idle"
        /\ ~peerClosed[c]
        /\ s2c[c] = <<MsgItem([status |-> "error", message |-> "File not found"])>>

\* the worker of c is about to read, as a request, something that fails to
\* decode (text that is no JSON document, bytes that are not UTF-8) or a
\* request whose command is none of UPLOAD, DOWNLOAD, LIST
BadRequestAhead(c) ==
    /\ pc[c] = "idle"
    /\ c2s[c] # <<>>
    /\ \/ Head(c2s[c]).kind \in {"text", "binary"}
       \/ /\ Head(c2s[c]).kind = "msg"
          /\ Get(Head(c2s[c]).m, "command", "None") \notin {"UPLOAD", "DOWNLOAD", "LIST"}

\* the step appends one error response to what the worker of c has sent
SendsOneError(c) ==
    /\ Len(s2c'[c]) = Len(s2c[c]) + 1
    /\ SubSeq(s2c'[c], 1, Len(s2c[c])) = s2c[c]
    /\ Last(s2c'[c]).kind = "msg"
    /\ Get(Last(s2c'[c]).m, "status", "None") = "error"

\* C15: a request that fails to decode, and a request with an unknown command,
\* each get exactly one error response, change nothing in storage and leave
\* the worker in its request loop on the open connection.
C15_DispatcherErrorReplies ==
    [][\A c \in Conns :
        (BadRequestAhead(c) /\ c2s'[c] # c2s[c])
        => /\ files' = files /\ versions' = versions
           /\ ~peerClosed[c] => (pc'[c] = "idle" /\ SendsOneError(c))
      ]_vars

\* the worker of c is handling a request that arrived intact but is malformed:
\* a JSON value that is no object, a DOWNLOAD without filename, an UPLOAD
\* without filename, filesize or hash
MalformedAtHand(c) ==
    \/ pc[c] = "idle" /\ c2s[c] # <<>> /\ Head(c2s[c]).kind = "value"
    \/ pc[c] = "download" /\ "filename" \notin DOMAIN wk[c].request
    \/ pc[c] = "upload" /\ Lacks(wk[c].request)

\* C16: a malformed request is answered by an error response and the worker
\* keeps serving the connection; a worker ends only when the peer has closed,
\* or on a timeout of the read for the next request.
C16_BadRequestKeepsConnection ==
    [][\A c \in Conns :
        /\ (MalformedAtHand(c) /\ pc'[c] # pc[c] /\ ~peerClosed[c])
           => (pc'[c] = "idle" /\ SendsOneError(c))
        /\ (pc[c] # "closed" /\ pc'[c] = "closed" /\ ~peerClosed[c]
                /\ ~(pc[c] = "idle" /\ c2s[c] # <<>> /\ Head(c2s[c]).kind \in {"binary", "data"}))
           => (pc[c] = "idle" /\ c2s[c] = <<>>)
      ]_vars

\* a read of the worker of c that finds nothing and a peer that has not closed
TimedOutRead(c) ==
    /\ c2s[c] = <<>>
    /\ ~peerClosed[c]
    /\ \/ pc[c] = "idle"
       \/ pc[c] = "up_recv" /\ wk[c].received < wk[c].filesize
       \/ pc[c] = "dl_ack"

\* C17: when a read times out, waiting for a request, for upload payload or
\* for the download acknowledgment, the worker leaves its request loop and the
\* connection is closed.
C17_TimeoutCloses ==
    [][\A c \in Conns : (TimedOutRead(c) /\ pc'[c] # pc[c]) => pc'[c] = "closed"]_vars

\* C18: no exception gets past a top-level call of the client: every failure,
\* a socket failure at any step of the exchange included, makes the call
\* return a failure value.
C18_ClientNeverRaises == cl.pc # "raised"

\* send_request is waiting for the response and this step of the client
\* reads none
NoResponseStep ==
    /\ cl.pc \in WaitPcs
    /\ s2c[cl.socket] = <<>>
    /\ cl' # cl
    /\ cl' # [cl EXCEPT !.link = FALSE]

\* send_request is waiting for the response and this step reads one
ResponseStep ==
    /\ cl.pc \in WaitPcs
    /\ s2c[cl.socket] # <<>>
    /\ cl'.pc # cl.pc
    /\ s2c'[cl.socket] = Tail(s2c[cl.socket])

\* the call that send_request serves has returned its failure value
ReturnedFailure ==
    /\ cl'.pc = "idle"
    /\ cl.pc = "up_wait" => (cl'.uploaded.called /\ ~cl'.uploaded.ret)
    /\ cl.pc = "dl_wait" => (cl'.downloaded.called /\ ~cl'.downloaded.ret)
    /\ cl.pc = "ls_wait" => (cl'.listed.called /\ ~cl'.listed.ret)

\* C19: one call of send_request sends the request at most 3 times; when no
\* response came, it sends again only after the first and the second failure,
\* and after the third it closes the socket, calls connect once and returns
\* None whether or not the connect succeeded, with nothing sent on the new
\* connection; a response that is read, undecodable or not, ends the call
\* without another send.
C19_BoundedRetry ==
    [][/\ cl.sends <= 3
       /\ cl'.sends <= 3
       /\ NoResponseStep =>
             IF cl.sends < 3
             THEN /\ cl'.sends = cl.sends + 1
                  /\ cl'.pc = cl.pc
                  /\ cl'.socket = cl.socket
                  /\ cl'.connects = 0
             ELSE /\ cl'.sends = 3
                  /\ cl'.connects = 1
                  /\ peerClosed'[cl.socket]
                  /\ cl'.socket # cl.socket
                  /\ cl'.socket \in Conns => c2s'[cl'.socket] = <<>>
                  /\ ReturnedFailure
       /\ ResponseStep =>
             /\ cl'.sends = cl.sends
             /\ cl'.connects = cl.connects
             /\ c2s'[cl.socket] = c2s[cl.socket] \/ cl'.pc = "dl_recv"
             /\ Head(s2c[cl.socket]).kind # "msg" => ReturnedFailure
      ]_vars

\* send_request gave up after three sends, reconnected, and the call returned
\* its failure value with nothing sent on the new connection
C19_Witness ==
    /\ cl.pc = "idle"
    /\ cl.sends = 3
    /\ cl.connects = 1
    /\ cl.socket \in Conns
    /\ c2s[cl.socket] = <<>>
    /\ cl.downloaded.called /\ ~cl.downloaded.ret

\* C20: the client sends a request on a connection only when no request it
\* sent on that connection before is still unanswered, and a response that
\* send_request reads answers the one request then outstanding.
C20_Sequential ==
    [][/\ cl'.unanswered > cl.unanswered => cl.unanswered = 0
       /\ ResponseStep => cl.unanswered = 1
      ]_vars

\* the archived versions of a file: the paths of its version directory
VersionsOf(filename) ==
    {p \in DOMAIN versions : p.dir = SplitName(filename) /\ p.ext = filename.ext}

\* C25: the response to LIST has status 'success' and one entry for every file
\* of the storage root and for nothing else; an entry gives the current size
\* of its file and its versions, each once with its size, in strictly
\* descending order of their file names.
C25_ListResult ==
    \A c \in Conns :
        (pc[c] = "idle" /\ LastStatus(c, "success") /\ "files" \in DOMAIN Last(s2c[c]).m)
        => LET listing == Last(s2c[c]).m.files IN
           /\ {e.filename : e \in listing} = DOMAIN files
           /\ Cardinality(listing) = Cardinality(DOMAIN files)
           /\ \A e \in listing :
                 /\ e.size = Len(files[e.filename])
                 /\ {e.versions[i].filename : i \in 1..Len(e.versions)} = VersionsOf(e.filename)
                 /\ \A i \in 1..Len(e.versions) :
                       /\ e.versions[i].size = Len(versions[e.versions[i].filename])
                       /\ \A j \in 1..Len(e.versions) :
                             i < j => e.versions[i].filename.ts > e.versions[j].filename.ts

\* a listing that shows a file with two archived versions
C25_Witness ==
    \E c \in Conns :
        /\ pc[c] = "idle"
        /\ LastStatus(c, "success")
        /\ "files" \in DOMAIN Last(s2c[c]).m
        /\ \E e \in Last(s2c[c]).m.files : Len(e.versions) = 2

\* C26: the 'ready' response of an UPLOAD under overwrite, rename or versioning
\* carries is_duplicate = true exactly when the requested name exists in the
\* storage root; under overwrite and versioning, and under rename with a name
\* that does not exist, its filename is the requested name; under rename with
\* an existing name it is name_vN.ext for the smallest N >= 2 that is free.
C26_ResolverResult ==
    [][\A c \in Conns :
        (pc[c] = "up_ready" /\ s2c'[c] # s2c[c])
        => LET filename == wk[c].request.filename
               handling_mode == Get(wk[c].request, "handling_mode", "overwrite")
               ready == Last(s2c'[c]).m
           IN /\ ready.status = "ready"
              /\ handling_mode \in Modes
                 => /\ ready.is_duplicate = (filename \in DOMAIN files)
                    /\ (handling_mode # "rename" \/ filename \notin DOMAIN files)
                       => ready.filename = filename
                    /\ (handling_mode = "rename" /\ filename \in DOMAIN files)
                       => \E N \in 2..(MaxUploads + 1) :
                             /\ ready.filename = RenamedTo(filename, N)
                             /\ ready.filename \notin DOMAIN files
                             /\ \A i \in 2..(N - 1) : RenamedTo(filename, i) \in DOMAIN files]_vars

\* a 'ready' under rename that names name_v3.ext: name.ext and name_v2.ext exist
C26_Witness ==
    \E c \in Conns :
        /\ pc[c] = "up_open"
        /\ LastStatus(c, "ready")
        /\ Last(s2c[c]).m.is_duplicate
        /\ Last(s2c[c]).m.filename = RenamedTo(FileA, 3)
        /\ {FileA, RenamedTo(FileA, 2)} \subseteq DOMAIN files

UploadPcs == {"upload", "up_archive", "up_ready", "up_open", "up_recv"}

\* C27: an UPLOAD under 'rename' never changes or deletes a file that existed
\* when the request arrived: the version root stays as it is, nothing of the
\* storage root changes before the target is opened, the target does not
\* exist when it is opened, and from then on (writes, abort on an early end,
\* removal on a digest mismatch) only the target changes.
C27_RenameKeepsExisting ==
    [][\A c \in Conns :
        (pc[c] \in UploadPcs /\ Get(wk[c].request, "handling_mode", "overwrite") = "rename")
        => /\ versions' = versions
           /\ pc[c] \in {"upload", "up_archive", "up_ready"} => files' = files
           /\ pc[c] = "up_open" => wk[c].new_filename \notin DOMAIN files
           /\ \A f \in DOMAIN files :
                 f # wk[c].new_filename => f \in DOMAIN files' /\ files'[f] = files[f]]_vars

\* an UPLOAD of an existing name under 'rename' ended with a digest mismatch:
\* the renamed target is gone, the file that existed is still there
C27_Witness ==
    \E c \in Conns :
        /\ pc[c] = "idle"
        /\ Len(s2c[c]) = 2
        /\ s2c[c][1].kind = "msg"
        /\ Get(s2c[c][1].m, "status", "None") = "ready"
        /\ s2c[c][1].m.handling_mode = "rename"
        /\ s2c[c][1].m.is_duplicate
        /\ LastStatus(c, "error")
        /\ "expected_hash" \in DOMAIN Last(s2c[c]).m
        /\ FileA \in DOMAIN files
        /\ s2c[c][1].m.filename \notin DOMAIN files

\* the worker took something off the connection in this step
Consumes(c) == c2s[c] # <<>> /\ c2s'[c] # c2s[c]

\* C28: after 'ready' handle_upload never has more than the declared filesize;
\* a read takes no more than what is missing and leaves the rest of the run at
\* the head of the connection; an upload that completes has consumed exactly
\* the declared filesize; what is left is taken by the dispatcher.
C28_ExactLength ==
    [][\A c \in Conns :
        /\ pc[c] = "up_recv"
           => /\ wk[c].received <= wk[c].filesize
              /\ (Consumes(c) /\ pc'[c] = "up_recv")
                 => LET d == wk'[c].received - wk[c].received IN
                    /\ d <= wk[c].filesize - wk[c].received
                    /\ BytesOf(c2s'[c]) = Drop(BytesOf(c2s[c]), d)
              /\ pc'[c] = "idle"
                 => /\ c2s'[c] = c2s[c]
                    /\ (s2c'[c] # s2c[c] /\ Get(Last(s2c'[c]).m, "status", "None") = "success")
                       => wk[c].received = wk[c].filesize
        /\ (pc[c] = "idle" /\ Consumes(c))
           => pc'[c] \in {"idle", "closed", "upload", "download", "list"} /\ c2s'[c] = Tail(c2s[c])]_vars

\* the same for the uploads that declare a size of at least one byte
C28_ExactLength_positive ==
    [][\A c \in Conns :
        /\ (pc[c] = "up_recv" /\ wk[c].filesize >= 1)
           => /\ wk[c].received <= wk[c].filesize
              /\ (Consumes(c) /\ pc'[c] = "up_recv")
                 => LET d == wk'[c].received - wk[c].received IN
                    /\ d <= wk[c].filesize - wk[c].received
                    /\ BytesOf(c2s'[c]) = Drop(BytesOf(c2s[c]), d)
              /\ pc'[c] = "idle"
                 => /\ c2s'[c] = c2s[c]
                    /\ (s2c'[c] # s2c[c] /\ Get(Last(s2c'[c]).m, "status", "None") = "success")
                       => wk[c].received = wk[c].filesize
        /\ (pc[c] = "idle" /\ Consumes(c))
           => pc'[c] \in {"idle", "closed", "upload", "download", "list"} /\ c2s'[c] = Tail(c2s[c])]_vars

\* an upload succeeded and the bytes sent after its payload wait for the dispatcher
C28_LeftoverWitness ==
    \E c \in Conns :
        /\ JustSucceeded(c)
        /\ c2s[c] # <<>>
        /\ Head(c2s[c]).kind = "data"

\* C23: the accept loop keeps running, also after accept() raised a socket
\* error; a connection is accepted and given a worker whatever the other
\* workers are doing, and a worker that has something to do can do it
\* whatever the other workers are doing.
C23_WorkerIsolation ==
    /\ listener.accepting
    /\ \A c \in Conns :
          /\ pc[c] \in {"free", "closed"} => ENABLED Accept(c)
          /\ (pc[c] = "idle" /\ c2s[c] # <<>>) => ENABLED RecvRequest(c)
          /\ pc[c] \in {"upload", "up_archive", "up_ready", "up_open"} => ENABLED WorkerUploads(c)
          /\ (pc[c] = "up_recv" /\ c2s[c] # <<>>) => ENABLED WorkerUploads(c)

\* accept() has raised once; the worker of connection 1 waits for the payload
\* of a silent peer, and the upload of connection 2 has been served
C23_Witness ==
    /\ listener.errors = 1
    /\ pc[1] = "up_recv"
    /\ wk[1].received = 0
    /\ c2s[1] = <<>>
    /\ JustSucceeded(2)

Resolved(d, handling_mode) ==
    /\ pc[d] \in {"up_ready", "up_open"}
    /\ Get(wk[d].request, "handling_mode", "overwrite") = handling_mode
    /\ wk[d].is_duplicate

\* the target of d is still the first of name_v2.ext, name_v3.ext, ... that
\* does not exist
FirstFree(d) ==
    \E N \in 2..(MaxUploads + 2) :
        /\ wk[d].new_filename = RenamedTo(wk[d].request.filename, N)
        /\ wk[d].new_filename \notin DOMAIN files
        /\ \A i \in 2..(N - 1) : RenamedTo(wk[d].request.filename, i) \in DOMAIN files

\* C24: when a worker resolves a name that exists under 'rename' while another
\* worker has resolved the same name under 'rename', has not opened its target
\* yet and that target is still the first free name, it is given the same
\* target; when a worker archives under
\* 'versioning' while another has archived the same name and has not opened
\* the active file, which is still there, it archives the content the active
\* file has at that moment and leaves the active file as it is.
C24_RaceNotExcluded ==
    [][\A c \in Conns : \A d \in Conns \ {c} :
        /\ (/\ pc[c] = "upload" /\ pc'[c] = "up_ready"
            /\ Get(wk[c].request, "handling_mode", "overwrite") = "rename"
            /\ Resolved(d, "rename")
            /\ FirstFree(d)
            /\ wk[d].request.filename = wk[c].request.filename
            /\ wk[c].request.filename \in DOMAIN files)
           => /\ wk'[c].is_duplicate
              /\ wk'[c].new_filename = wk[d].new_filename
        /\ (/\ pc[c] = "up_archive" /\ pc'[c] = "up_ready"
            /\ Resolved(d, "versioning")
            /\ wk[d].request.filename = wk[c].request.filename
            /\ wk[c].request.filename \in DOMAIN files)
           => \E p \in DOMAIN versions' :
                 /\ p.ts = now'
                 /\ p.dir = SplitName(wk[c].request.filename)
                 /\ versions'[p] = files[wk[c].request.filename]
                 /\ files' = files]_vars

\* two uploads under 'rename' have both been told the target a_v2.txt
C24_Witness ==
    \A c \in Conns :
        /\ pc[c] \in {"up_open", "up_recv"}
        /\ s2c[c] # <<>>
        /\ s2c[c][1].kind = "msg"
        /\ Get(s2c[c][1].m, "status", "None") = "ready"
        /\ s2c[c][1].m.handling_mode = "rename"
        /\ s2c[c][1].m.is_duplicate
        /\ s2c[c][1].m.filename = RenamedTo(FileA, 2)

\* two uploads under 'versioning' have both archived the content that a.txt
\* still has
C24_VersioningWitness ==
    /\ \A c \in Conns : Resolved(c, "versioning") /\ pc[c] = "up_open"
    /\ files[FileA] = <<0>>
    /\ DOMAIN versions # {}
    /\ \A p \in DOMAIN versions : versions[p] = <<0>>

\* the client has something to read, and it is a JSON response with this status
HeadStatus(status) ==
    /\ s2c[cl.socket] # <<>>
    /\ Head(s2c[cl.socket]).kind = "msg"
    /\ Get(Head(s2c[cl.socket]).m, "status", "None") = status

\* the step puts payload bytes on a connection
SendsBytes(c) == Len(c2s'[c]) > Len(c2s[c]) /\ Last(c2s'[c]).kind = "data"

\* the step puts a JSON document on a connection
SendsJson(c) == Len(c2s'[c]) > Len(c2s[c]) /\ Last(c2s'[c]).kind = "msg"

\* no connection is opened in the step
NoConnect ==
    /\ cl'.socket = cl.socket
    /\ \A c \in Conns : pc[c] \in {"free", "closed"} => pc'[c] = pc[c]

\* C29: upload_file sends payload only after it has read a 'ready' response to
\* its UPLOAD request; it returns True only when it has sent the whole payload
\* and the response it then reads has status 'success'; any other final
\* response, or none, makes it return False.
C29_UploadOrdering ==
    [][/\ (cl.pc # "up_send" /\ cl'.pc = "up_send")
          => cl.pc = "up_wait" /\ HeadStatus("ready")
       /\ (\E c \in Conns : SendsBytes(c)) => cl.pc = "up_send"
       /\ (~cl.uploaded.ret /\ cl'.uploaded.ret)
          => /\ cl.pc = "up_send"
             /\ cl.sent = cl.filesize
             /\ HeadStatus("success")
       /\ (cl.pc = "up_send" /\ cl'.pc # "up_send" /\ ~HeadStatus("success"))
          => /\ cl'.pc = "idle"
             /\ cl'.uploaded.called
             /\ ~cl'.uploaded.ret]_vars

\* upload_file has returned True
C29_Witness ==
    /\ cl.pc = "idle"
    /\ cl.uploaded.called
    /\ cl.uploaded.ret

\* the step is one of the client's own, not the network's
ClientStep == cl' # cl /\ cl' # [cl EXCEPT !.link = FALSE]

\* C30: a resume begins only in the receive loop of a download whose read
\* timed out; a failure while the upload is streamed or confirmed returns
\* False, opens no connection and sends no request; an empty read or a socket
\* error in the receive loop of a download fails the call, the partial file
\* is removed, no connection is opened and no request is sent.
C30_ResumeOnlyFromTimeout ==
    [][/\ (cl.pc # "rs_wait" /\ cl'.pc = "rs_wait")
          => /\ cl.pc = "dl_recv"
             /\ cl.received < cl.filesize
             /\ s2c[cl.socket] = <<>>
             /\ pc[cl.socket] # "closed" \/ ~cl.link
       /\ (cl.pc = "up_send" /\ ClientStep)
          => /\ NoConnect
             /\ \A c \in Conns : ~SendsJson(c)
             /\ cl'.pc \in {"up_send", "idle"}
             /\ (cl'.pc = "idle" /\ ~HeadStatus("success")) => ~cl'.uploaded.ret
       /\ (/\ cl.pc = "dl_recv" /\ cl.received < cl.filesize /\ ClientStep
           /\ s2c[cl.socket] = <<>> /\ pc[cl.socket] = "closed" /\ cl.link)
          => /\ NoConnect
             /\ c2s' = c2s
             /\ cl'.pc = "idle"
             /\ cl'.downloaded.called
             /\ ~cl'.downloaded.ret
             /\ cl.filename \notin DOMAIN cl'.downloads]_vars

\* download_file has failed on an empty read, after it had written a byte
\* and without any resume
C30_Witness ==
    /\ cl.pc = "idle"
    /\ cl.downloaded.called
    /\ ~cl.downloaded.ret
    /\ cl.resumes = 0
    /\ cl.socket \in Conns
    /\ cl.link
    /\ pc[cl.socket] = "closed"
    /\ cl.sends = 1
    /\ "verified" \in DOMAIN cl.downloaded
    /\ ~cl.downloaded.verified

\* C21: a read that times out in the receive loop does not fail the download
\* when the server can be reached: the old connection is closed and a DOWNLOAD
\* request with resume_offset = bytes written so far is sent on a new one;
\* the local file, the byte count and the hash object stay as they are over
\* the resume; and when the local file is the first `received` bytes of the
\* file on the server, which stays the same, it is so again after every byte
\* written after a resume: none is written twice, none is skipped.
C21_ClientResume ==
    [][/\ (cl.pc = "dl_recv" /\ cl'.pc = "rs_wait")
          => /\ cl'.socket # cl.socket
             /\ peerClosed'[cl.socket]
             /\ c2s'[cl'.socket] = <<MsgItem([command |-> "DOWNLOAD", filename |-> cl.filename,
                                               resume_offset |-> Len(cl.downloads[cl.filename])])>>
             /\ cl'.downloads = cl.downloads
             /\ cl'.received = cl.received
             /\ cl'.hash_obj = cl.hash_obj
       /\ (cl.pc = "rs_wait" /\ cl'.pc = "dl_recv")
          => /\ HeadStatus("ready")
             /\ cl'.downloads = cl.downloads
             /\ cl'.received = cl.received
             /\ cl'.hash_obj = cl.hash_obj
       /\ (/\ cl.pc = "dl_recv" /\ cl'.pc = "dl_recv" /\ cl.resumes >= 1 /\ run'.k = 0
           /\ cl.downloads[cl.filename] = Take(files[cl.filename], cl.received))
          => cl'.downloads[cl.filename] = Take(files[cl.filename], cl'.received)]_vars

\* a download has returned True after two resumes
C21_Witness ==
    /\ cl.pc = "idle"
    /\ cl.downloaded.called
    /\ cl.downloaded.ret
    /\ cl.resumes = 2

\* C22: download_file returns True only when it has written filesize bytes
\* and their digest is the one it took from the first 'ready' response, which
\* a resume does not replace; when the digests differ the local file is
\* removed and the call returns False.
C22_DownloadVerified ==
    [][/\ (~cl.downloaded.ret /\ cl'.downloaded.ret)
          => /\ cl.pc = "dl_recv"
             /\ cl.received = cl.filesize
             /\ Len(cl.downloads[cl.filename]) = cl.filesize
             /\ CalculateFileHash(cl.downloads[cl.filename]) = cl.file_hash
             /\ cl'.downloads = cl.downloads
       /\ (cl.pc = "dl_wait" /\ cl'.pc = "dl_recv")
          => /\ cl'.file_hash = Head(s2c[cl.socket]).m.hash
             /\ cl'.filesize = Head(s2c[cl.socket]).m.filesize
       /\ (cl.pc \in {"dl_recv", "rs_wait"} /\ cl'.pc \in {"dl_recv", "rs_wait"})
          => cl'.file_hash = cl.file_hash /\ cl'.filesize = cl.filesize
       /\ (/\ cl.pc = "dl_recv" /\ cl'.pc = "idle" /\ ~(cl.received < cl.filesize)
           /\ CalculateFileHash(cl.downloads[cl.filename]) # cl.file_hash)
          => /\ ~cl'.downloaded.ret
             /\ cl.filename \notin DOMAIN cl'.downloads]_vars

\* the file on the server changed during the download; after a resume all
\* bytes arrived, the digests were compared and differed: the call has
\* returned False and the local file is gone
C22_Witness ==
    /\ cl.pc = "idle"
    /\ cl.downloaded.called
    /\ ~cl.downloaded.ret
    /\ "verified" \in DOMAIN cl.downloaded
    /\ cl.downloaded.verified
    /\ cl.resumes >= 1
    /\ run.k = 1
    /\ FileA \notin DOMAIN cl.downloads

\* the step of worker c sends the 'success' of an upload
SendsSuccess(c) ==
    /\ pc[c] = "up_recv"
    /\ s2c'[c] # s2c[c]
    /\ Last(s2c'[c]).kind = "msg"
    /\ Get(Last(s2c'[c]).m, "status", "None") = "success"

\* C31: with uploads on several connections, when a handler sends 'success' the
\* file of the name it resolved exists and hashes to the digest of that
\* response; and a step of an upload on another connection neither removes
\* nor alters a file whose upload has been answered with 'success'.
C31_ConcurrentIntegrity ==
    [][\A c \in Conns :
        /\ SendsSuccess(c)
           => /\ wk[c].new_filename \in DOMAIN files'
              /\ CalculateFileHash(files'[wk[c].new_filename]) = Last(s2c'[c]).m.hash
        /\ \A d \in Conns \ {c} :
              (JustSucceeded(d) /\ pc[c] \in {"up_open", "up_recv"} /\ pc'[c] # pc[c]
                    /\ ResolvedName(d) \in DOMAIN files)
              => /\ ResolvedName(d) \in DOMAIN files'
                 /\ files'[ResolvedName(d)] = files[ResolvedName(d)]
      ]_vars

\* an upload on another connection than c has opened this file and has not
\* verified it yet
UploadInProgress(c, filename) ==
    \E d \in Conns \ {c} : pc[d] = "up_recv" /\ wk[d].linked /\ wk[d].new_filename = filename

\* C32: a DOWNLOAD is answered 'ready', and a LIST shows a file, only when no
\* upload of that file is in progress on another connection; and when the
\* send loop of a download from offset 0 ends after remaining_bytes bytes,
\* the bytes streamed hash to the digest of its 'ready' response.
C32_NoUnverifiedServed ==
    [][\A c \in Conns :
        /\ (pc[c] = "download" /\ s2c'[c] # s2c[c]
                /\ Get(Last(s2c'[c]).m, "status", "None") = "ready")
           => ~UploadInProgress(c, wk[c].request.filename)
        /\ (pc[c] = "list" /\ s2c'[c] # s2c[c])
           => \A e \in Last(s2c'[c]).m.files : ~UploadInProgress(c, e.filename)
        /\ (pc[c] = "dl_send" /\ pc'[c] = "idle" /\ wk[c].resume_offset = 0
                /\ wk[c].bytes_sent = wk[c].filesize)
           => CalculateFileHash(Streamed(c)) = s2c[c][1].m.hash
      ]_vars

\* the step of worker c ends an upload with an error response
SendsUploadError(c) ==
    /\ pc[c] = "up_recv"
    /\ s2c'[c] # s2c[c]
    /\ Last(s2c'[c]).kind = "msg"
    /\ Get(Last(s2c'[c]).m, "status", "None") = "error"

\* C33: when an upload ends with an error response, the file of the requested
\* name, if it was in the storage root when the request was resolved
\* (is_duplicate), is still there, and the step removes or changes no file
\* other than the partial target.
C33_FailedUploadKeepsFiles ==
    [][\A c \in Conns :
        SendsUploadError(c)
        => /\ wk[c].is_duplicate => wk[c].request.filename \in DOMAIN files'
           /\ \A f \in DOMAIN files \ {wk[c].new_filename} :
                 f \in DOMAIN files' /\ files'[f] = files[f]
      ]_vars

\* C34: no step of a DOWNLOAD or LIST handler, whatever its outcome, creates,
\* changes or deletes a file of the storage root or of the version root, and
\* when the handler returns the worker holds nothing of the transfer.
C34_ReadOnly ==
    [][\A c \in Conns :
        (pc[c] \in {"download", "dl_ack", "dl_send", "list"} /\ <<pc[c], wk[c], s2c[c]>>' # <<pc[c], wk[c], s2c[c]>>)
        => /\ files' = files
           /\ versions' = versions
           /\ pc'[c] \in {"idle", "closed"} => wk'[c] = InitWk
      ]_vars

\* a download whose send failed in mid-stream: the handler has returned after
\* it sent one of the two bytes
C34_Witness ==
    \E c \in Conns :
        /\ pc[c] = "idle"
        /\ peerClosed[c]
        /\ s2c[c] # <<>>
        /\ s2c[c][1].kind = "msg"
        /\ Get(s2c[c][1].m, "status", "None") = "ready"
        /\ Get(s2c[c][1].m, "resuming_from", -1) = 0
        /\ s2c[c][1].m.filesize = 2
        /\ Len(Streamed(c)) = 1

\* C35: a download_file that has sent its request returns: the client gets
\* back to "idle" with True or False (or the call raises), however often the
\* read after a resume times out.
C35_DownloadReturns ==
    (cl.pc \in {"dl_wait", "dl_recv", "rs_wait"}) ~> (cl.pc \in {"idle", "raised"})

\* C36: the client's socket attribute is not None (0) only when it is the
\* socket of a connection that the last connect() established and that the
\* client has not closed since; after a connect() that failed it is None.
C36_SocketReflectsConnection == cl.socket # 0 => cl.socket \in Conns

\* C37: a download_file that returns False after it has opened the local file
\* (from the receive loop, from a resume or from the verification) leaves no
\* file at the destination path; one that returns before it opens the local
\* file returns False and leaves the download directory as it was.
C37_NoPartialDownload ==
    [][/\ (cl.pc \in {"dl_recv", "rs_wait"} /\ cl'.pc = "idle" /\ ~cl'.downloaded.ret)
          => cl.filename \notin DOMAIN cl'.downloads
       /\ (cl.pc = "dl_wait" /\ cl'.pc = "idle")
          => /\ cl'.downloaded.called
             /\ ~cl'.downloaded.ret
             /\ cl'.downloads = cl.downloads
       /\ (cl.pc = "dl_wait" /\ cl'.pc \in {"dl_wait", "raised"}) => cl'.downloads = cl.downloads
      ]_vars

\* download_file has returned False on an error response or without any
\* response, and the a.txt of an earlier run is still in the download
\* directory
C37_Witness ==
    /\ cl.pc = "idle"
    /\ cl.downloaded.called
    /\ ~cl.downloaded.ret
    /\ "verified" \notin DOMAIN cl.downloaded
    /\ FileA \in DOMAIN cl.downloads
    /\ cl.downloads[FileA] = <<0>>

\* C38: in the response to LIST, the versions of every file are exactly the
\* archived versions made from that filename (same name, same extension),
\* and none made from another filename.
C38_OwnVersionsOnly ==
    \A c \in Conns :
        (pc[c] = "idle" /\ LastStatus(c, "success") /\ "files" \in DOMAIN Last(s2c[c]).m)
        => \A e \in Last(s2c[c]).m.files :
              \A p \in DOMAIN versions :
                 (\E i \in 1..Len(e.versions) : e.versions[i].filename = p)
                 <=> (p.name = SplitName(e.filename) /\ p.ext = e.filename.ext)

\* C39: an UPLOAD whose handling_mode is none of overwrite, rename and
\* versioning is not rejected: it is resolved to the requested filename with
\* is_duplicate = false, also when the file exists; nothing is archived; the
\* 'ready' response echoes the mode; and the existing file is opened for
\* writing, which truncates it.
C39_UnknownMode ==
    [][\A c \in Conns :
        LET request == wk[c].request
            handling_mode == Get(request, "handling_mode", "overwrite")
        IN (pc[c] \in {"upload", "up_ready", "up_open", "up_recv"} /\ handling_mode \notin Modes
                /\ all_required(request))
           => /\ versions' = versions
              /\ (pc[c] = "upload" /\ pc'[c] # "upload")
                 => /\ pc'[c] = "up_ready"
                    /\ s2c'[c] = s2c[c]
                    /\ files' = files
              /\ (pc[c] = "up_ready" /\ pc'[c] # "up_ready")
                 => /\ pc'[c] = "up_open"
                    /\ files' = files
                    /\ s2c'[c] = Append(s2c[c], MsgItem([status |-> "ready",
                                                         filename |-> request.filename,
                                                         is_duplicate |-> FALSE,
                                                         handling_mode |-> handling_mode]))
              /\ (pc[c] = "up_open" /\ pc'[c] # "up_open")
                 => /\ pc'[c] = "up_recv"
                    /\ wk'[c].new_filename = request.filename
                    /\ files' = WriteFile(files, request.filename, <<>>)
      ]_vars

\* an upload of a.txt under an unknown mode has replaced the a.txt that was
\* there, and nothing was archived
C39_Witness ==
    \E c \in Conns :
        /\ JustSucceeded(c)
        /\ s2c[c][1].m.handling_mode = OtherMode
        /\ s2c[c][1].m.filename = FileA
        /\ ~s2c[c][1].m.is_duplicate
        /\ files[FileA] = <<1>>
        /\ versions = EmptyFn

====
